---- MODULE Spec2Model ----
(***************************************************************************)
(* A model of recount: the ledger (AccountsDocument) of                     *)
(* src/src/accounts_doc.rs with its balance queries and balance iterator,  *)
(* parse() of src/src/parser.rs, which builds a ledger from a stream of    *)
(* tokens, and the Tokenizer of src/src/tokenizer.rs, which makes the      *)
(* tokens from a text.                                                     *)
(***************************************************************************)
EXTENDS Integers, Sequences, FiniteSets, TLC

\* ------------------------------------------------------------------ bounds

\* Accounts the document holds at most.
MaxAccounts == 2

\* Transactions the document holds at most.
MaxTx == 2

\* Postings held by the stored transactions and a submitted list together.
MaxPostings == 4

\* Posting lines one transaction block of a token stream holds at most.
MaxBlock == 2

\* Words a buffer of the tokenizer holds at most.
MaxWords == 2

\* Characters the name of an account reference holds at most.
MaxName == 2

\* ------------------------------------------------------------ Option<T>

None == <<>>

Some(x) == <<x>>

is_some(o) == o # <<>>

unwrap(o) == o[1]

\* ------------------------------------------------- rust_decimal::Decimal
\* A Decimal is mantissa * 10^(-scale).  Values are kept in canonical form
\* (no trailing zero in the fraction, zero has scale 0) so that equality of
\* records is the numeric equality that Decimal's PartialEq implements.

RECURSIVE Pow10(_)
Pow10(n) == IF n = 0 THEN 1 ELSE 10 * Pow10(n - 1)

RECURSIVE Norm(_)
Norm(d) ==
    IF d.m = 0 THEN [m |-> 0, e |-> 0]
    ELSE IF d.e > 0 /\ d.m % 10 = 0 THEN Norm([m |-> d.m \div 10, e |-> d.e - 1])
    ELSE d

Dec(m, e) == Norm([m |-> m, e |-> e])

ZERO == Dec(0, 0)

ONE == Dec(1, 0)

MaxScale(a, b) == IF a.e >= b.e THEN a.e ELSE b.e

Units(a, s) == a.m * Pow10(s - a.e)

DecAdd(a, b) == Dec(Units(a, MaxScale(a, b)) + Units(b, MaxScale(a, b)), MaxScale(a, b))

DecMul(a, b) == Dec(a.m * b.m, a.e + b.e)

DecNeg(a) == Dec(0 - a.m, a.e)

DecAbs(a) == IF a.m < 0 THEN DecNeg(a) ELSE a

DecGt(a, b) == Units(a, MaxScale(a, b)) > Units(b, MaxScale(a, b))

TOLERANCE == Dec(5, 3)

\* ---------------------------------------------------------------- types

AccountTypes == {"Equity", "Liability", "Asset", "Income", "Expense"}

AccountId(name, type_) == [name |-> name, type_ |-> type_]

AccountIdEq(a, b) == a.name = b.name /\ a.type_ = b.type_

Account(id, currency, opening_date) ==
    [id |-> id, currency |-> currency, opening_date |-> opening_date]

Auto(id) == [kind |-> "Auto", account_id |-> id]

Regular(id, amount, currency) ==
    [kind |-> "Regular", account_id |-> id, amount |-> amount, currency |-> currency]

Conversion(id, account_amount, account_currency, rate, tx_currency) ==
    [kind |-> "Conversion", account_id |-> id, account_amount |-> account_amount,
     account_currency |-> account_currency, rate |-> rate, tx_currency |-> tx_currency]

account_id(p) == p.account_id

\* Mutant: a conversion posting contributes its converted amount.
account_amount_converted(p) ==
    CASE p.kind = "Auto" -> None
      [] p.kind = "Regular" -> Some(p.amount)
      [] p.kind = "Conversion" -> Some(DecMul(p.account_amount, p.rate))

account_amount(p) ==
    CASE p.kind = "Auto" -> None
      [] p.kind = "Regular" -> Some(p.amount)
      [] p.kind = "Conversion" -> Some(p.account_amount)

\* Mutant: a conversion posting reports its target currency as account currency.
info_target_currency(p) ==
    CASE p.kind = "Auto" -> None
      [] p.kind = "Regular" ->
            Some([account_currency |-> p.currency, tx_amount |-> p.amount,
                  tx_currency |-> p.currency])
      [] p.kind = "Conversion" ->
            Some([account_currency |-> p.tx_currency,
                  tx_amount |-> DecMul(p.account_amount, p.rate),
                  tx_currency |-> p.tx_currency])

info(p) ==
    CASE p.kind = "Auto" -> None
      [] p.kind = "Regular" ->
            Some([account_currency |-> p.currency, tx_amount |-> p.amount,
                  tx_currency |-> p.currency])
      [] p.kind = "Conversion" ->
            Some([account_currency |-> p.account_currency,
                  tx_amount |-> DecMul(p.account_amount, p.rate),
                  tx_currency |-> p.tx_currency])

Transaction(date, description, bal, postings) ==
    [_date |-> date, _description |-> description, balance |-> bal, postings |-> postings]

\* ------------------------------------------------------ AccountsDocument

VARIABLES accounts, transactions, op, ret, iter, items, ended, pool, parser, tokenizer

vars == <<accounts, transactions, op, ret, iter, items, ended, pool, parser, tokenizer>>

Min(S) == CHOOSE x \in S : \A y \in S : x <= y

\* Mutant: the account is looked up by its name alone.
find_account_by_name(accts, id) ==
    LET hits == {i \in 1..Len(accts) : accts[i].id.name = id.name}
    IN  IF hits = {} THEN None ELSE Some(accts[Min(hits)])

find_account(accts, id) ==
    LET hits == {i \in 1..Len(accts) : AccountIdEq(accts[i].id, id)}
    IN  IF hits = {} THEN None ELSE Some(accts[Min(hits)])

\* Mutant: the account type is not compared.
account_exists_by_name(accts, id) == \E i \in 1..Len(accts) : accts[i].id.name = id.name

account_exists(accts, id) == \E i \in 1..Len(accts) : AccountIdEq(accts[i].id, id)

\* Mutant: an account is rejected only when an identical account is present.
open_an_account_same_details(accts, account) ==
    IF \E i \in 1..Len(accts) : accts[i] = account
    THEN [ret |-> "AccountAlreadyExists", accounts |-> accts]
    ELSE [ret |-> "Ok", accounts |-> Append(accts, account)]

\* Mutant: the presence check is left out.
open_an_account_unchecked(accts, account) ==
    [ret |-> "Ok", accounts |-> Append(accts, account)]

open_an_account(accts, account) ==
    IF \E i \in 1..Len(accts) : AccountIdEq(accts[i].id, account.id)
    THEN [ret |-> "AccountAlreadyExists", accounts |-> accts]
    ELSE [ret |-> "Ok", accounts |-> Append(accts, account)]

\* The locals of add_transaction before the first posting is looked at.
LoopStart == [running_total |-> ZERO, auto_posting |-> None, currency |-> None]

\* Mutant: a later posting's transaction currency replaces the first one.
currency_step_unchecked(st, post_info) ==
    [err |-> "Ok",
     st |-> [st EXCEPT !.currency = Some(post_info.tx_currency),
                       !.running_total = DecAdd(@, post_info.tx_amount)]]

\* The currency match of the loop body, for a posting that is not an auto-posting.
currency_step(st, post_info) ==
    IF is_some(st.currency) /\ unwrap(st.currency) = post_info.tx_currency
    THEN [err |-> "Ok", st |-> [st EXCEPT !.running_total = DecAdd(@, post_info.tx_amount)]]
    ELSE IF is_some(st.currency)
    THEN [err |-> "IncorrectTransactionCurrency", st |-> st]
    ELSE [err |-> "Ok",
          st |-> [st EXCEPT !.currency = Some(post_info.tx_currency),
                            !.running_total = DecAdd(@, post_info.tx_amount)]]

\* Mutant: a second auto-posting replaces the first one.
auto_step_last_wins(st, account) ==
    [err |-> "Ok", st |-> [st EXCEPT !.auto_posting = Some(account)]]

\* The auto-posting branch of the loop body.
auto_step(st, account) ==
    IF is_some(st.auto_posting)
    THEN [err |-> "MoreThanOneAutoPosting", st |-> st]
    ELSE [err |-> "Ok", st |-> [st EXCEPT !.auto_posting = Some(account)]]

\* Mutant: the currency of the account is compared before its opening date.
posting_step_currency_first(accts, date, posting, st) ==
    LET found == find_account(accts, account_id(posting))
    IN  IF ~is_some(found) THEN [err |-> "AccountNotFound", st |-> st]
        ELSE IF is_some(info(posting))
                 /\ unwrap(found).currency # unwrap(info(posting)).account_currency
        THEN [err |-> "IncorrectAccountCurrency", st |-> st]
        ELSE IF date < unwrap(found).opening_date THEN [err |-> "AccountNotOpen", st |-> st]
        ELSE IF is_some(info(posting)) THEN currency_step(st, unwrap(info(posting)))
        ELSE auto_step(st, unwrap(found))

\* Mutant: an account is open only after its opening date.
posting_step_after_opening(accts, date, posting, st) ==
    LET found == find_account(accts, account_id(posting))
    IN  IF ~is_some(found) THEN [err |-> "AccountNotFound", st |-> st]
        ELSE IF date <= unwrap(found).opening_date THEN [err |-> "AccountNotOpen", st |-> st]
        ELSE IF is_some(info(posting))
        THEN IF unwrap(found).currency # unwrap(info(posting)).account_currency
             THEN [err |-> "IncorrectAccountCurrency", st |-> st]
             ELSE currency_step(st, unwrap(info(posting)))
        ELSE auto_step(st, unwrap(found))

\* One iteration of the loop over the postings.
posting_step(accts, date, posting, st) ==
    LET found == find_account(accts, account_id(posting))
    IN  IF ~is_some(found) THEN [err |-> "AccountNotFound", st |-> st]
        ELSE IF date < unwrap(found).opening_date THEN [err |-> "AccountNotOpen", st |-> st]
        ELSE IF is_some(info(posting))
        THEN IF unwrap(found).currency # unwrap(info(posting)).account_currency
             THEN [err |-> "IncorrectAccountCurrency", st |-> st]
             ELSE currency_step(st, unwrap(info(posting)))
        ELSE auto_step(st, unwrap(found))

RECURSIVE postings_loop(_, _, _, _, _)
postings_loop(accts, date, postings, i, st) ==
    IF i > Len(postings) THEN [err |-> "Ok", st |-> st]
    ELSE LET r == posting_step(accts, date, postings[i], st)
         IN  IF r.err # "Ok" THEN r ELSE postings_loop(accts, date, postings, i + 1, r.st)

\* Mutant: the tolerance itself is already out of balance.
NotBalanced_strict(running_total) == ~DecGt(TOLERANCE, DecAbs(running_total))

NotBalanced(running_total) == DecGt(DecAbs(running_total), TOLERANCE)

\* Mutant: the auto-posting's account currency is not compared.
final_check_any_currency(st) ==
    IF is_some(st.auto_posting) THEN "Ok"
    ELSE IF NotBalanced(st.running_total) THEN "NotBalanced" ELSE "Ok"

\* Mutant: the balance is checked also when there is an auto-posting.
final_check_always_balanced(st) ==
    IF is_some(st.auto_posting) /\ is_some(st.currency)
            /\ unwrap(st.currency) # unwrap(st.auto_posting).currency
    THEN "IncorrectTransactionCurrency"
    ELSE IF NotBalanced(st.running_total) THEN "NotBalanced" ELSE "Ok"

\* The check made after the loop: the auto-posting's currency, or the balance.
final_check(st) ==
    IF is_some(st.auto_posting)
    THEN IF is_some(st.currency) /\ unwrap(st.currency) # unwrap(st.auto_posting).currency
         THEN "IncorrectTransactionCurrency"
         ELSE "Ok"
    ELSE IF NotBalanced(st.running_total) THEN "NotBalanced" ELSE "Ok"

\* Mutant: the transaction is put in front of the stored ones.
add_transaction_front(accts, txs, date, description, postings) ==
    LET r == postings_loop(accts, date, postings, 1, LoopStart)
    IN  IF r.err # "Ok" THEN [ret |-> r.err, transactions |-> txs]
        ELSE IF final_check(r.st) # "Ok" THEN [ret |-> final_check(r.st), transactions |-> txs]
        ELSE [ret |-> "Ok",
              transactions |-> <<Transaction(date, description, r.st.running_total, postings)>>
                                   \o txs]

\* Mutant: the transaction is pushed before the check made after the loop.
add_transaction_eager(accts, txs, date, description, postings) ==
    LET r == postings_loop(accts, date, postings, 1, LoopStart)
        pushed == Append(txs, Transaction(date, description, r.st.running_total, postings))
    IN  IF r.err # "Ok" THEN [ret |-> r.err, transactions |-> txs]
        ELSE [ret |-> final_check(r.st), transactions |-> pushed]

add_transaction(accts, txs, date, description, postings) ==
    LET r == postings_loop(accts, date, postings, 1, LoopStart)
    IN  IF r.err # "Ok" THEN [ret |-> r.err, transactions |-> txs]
        ELSE IF final_check(r.st) # "Ok"
        THEN [ret |-> final_check(r.st), transactions |-> txs]
        ELSE [ret |-> "Ok",
              transactions |->
                  Append(txs, Transaction(date, description, r.st.running_total, postings))]

\* Mutant: every posting of the transaction counts for every account.
SamePostings_any_account(postings, account) ==
    SelectSeq(postings, LAMBDA p : TRUE)

SamePostings(postings, account) ==
    SelectSeq(postings, LAMBDA p : AccountIdEq(account_id(p), account))

\* Mutant: an auto-posting contributes the imbalance itself, not its negation.
RECURSIVE fold_postings_plus(_, _, _, _)
fold_postings_plus(t, filtered, i, s) ==
    IF i > Len(filtered) THEN s
    ELSE fold_postings_plus(t, filtered, i + 1,
            DecAdd(s, IF is_some(account_amount(filtered[i]))
                      THEN unwrap(account_amount(filtered[i]))
                      ELSE t.balance))

RECURSIVE fold_postings(_, _, _, _)
fold_postings(t, filtered, i, s) ==
    IF i > Len(filtered) THEN s
    ELSE fold_postings(t, filtered, i + 1,
            DecAdd(s, IF is_some(account_amount(filtered[i]))
                      THEN unwrap(account_amount(filtered[i]))
                      ELSE DecNeg(t.balance)))

\* Mutant: only the first posting to the account is counted.
Transaction_balance_first_posting(t, account) ==
    IF SamePostings(t.postings, account) = <<>> THEN None
    ELSE Some(fold_postings(t, <<SamePostings(t.postings, account)[1]>>, 1, ZERO))

Transaction_balance(t, account) ==
    IF SamePostings(t.postings, account) = <<>> THEN None
    ELSE Some(fold_postings(t, SamePostings(t.postings, account), 1, ZERO))

RECURSIVE fold_transactions(_, _, _, _)
fold_transactions(txs, account, i, s) ==
    IF i > Len(txs) THEN s
    ELSE fold_transactions(txs, account, i + 1,
            DecAdd(s, IF is_some(Transaction_balance(txs[i], account))
                      THEN unwrap(Transaction_balance(txs[i], account))
                      ELSE ZERO))

balance(accts, txs, account) ==
    IF ~account_exists(accts, account) THEN None
    ELSE Some(fold_transactions(txs, account, 1, ZERO))

\* Mutant: the position moves on by two.
next_skip(accts, txs, position) ==
    IF position + 1 > Len(accts) THEN [item |-> None, position |-> position]
    ELSE [item |-> Some([id |-> accts[position + 1].id,
                         amount |-> unwrap(balance(accts, txs, accts[position + 1].id)),
                         currency |-> accts[position + 1].currency]),
          position |-> position + 2]

\* AccountBalances::next on an iterator at `position`.
next(accts, txs, position) ==
    IF position + 1 > Len(accts) THEN [item |-> None, position |-> position]
    ELSE [item |-> Some([id |-> accts[position + 1].id,
                         amount |-> unwrap(balance(accts, txs, accts[position + 1].id)),
                         currency |-> accts[position + 1].currency]),
          position |-> position + 1]

\* ------------------------------------------------------------- parser.rs
\* parse() pulls one item at a time from the token stream.  `parser` holds
\* its position in the code (pc), the locals in scope there, whether the
\* stream has delivered its end, and the value parse has returned; `from` and
\* `last` record where the last pull was made and what it delivered, `head`
\* what the first two pulls delivered.

Token(kind, value, line, column) ==
    [kind |-> kind, value |-> value, line |-> line, column |-> column]

Amount(currency, amount) == [currency |-> currency, amount |-> amount]

TokenizeError(msg, line, column) == [msg |-> msg, line |-> line, column |-> column]

ParseError(msg, line, column) == [msg |-> msg, line |-> line, column |-> column]

\* Result<Token, TokenizeError>, the item type of the stream.
Ok(t) == [is_ok |-> TRUE, v |-> t]

Err(e) == [is_ok |-> FALSE, v |-> e]

From(error) == ParseError(error.msg, error.line, error.column)

\* What parse() hands back: Ok(accounts_doc), Err(ParseError), or a panic
\* that unwinds out of it.
ReturnedOk == [kind |-> "Ok", error |-> None]

ReturnedErr(e) == [kind |-> "Err", error |-> Some(e)]

Panicked == [kind |-> "Panic", error |-> None]

DaysIn(y, m) ==
    IF m \in {4, 6, 9, 11} THEN 30
    ELSE IF m # 2 THEN 31
    ELSE IF (y % 4 = 0 /\ y % 100 # 0) \/ y % 400 = 0 THEN 29 ELSE 28

\* date.parse(): the text YYYY-MM-DD, held as <<y, m, d>>, read as a Date.
date_parse(text) ==
    IF text[2] \in 1..12 /\ text[3] >= 1 /\ text[3] <= DaysIn(text[1], text[2])
    THEN Some(text[1] * 10000 + text[2] * 100 + text[3])
    ELSE None

ParseStart ==
    [pc |-> "option_line", date |-> None, account |-> None, amount |-> None,
     conversion |-> None, postings |-> <<>>, line |-> 0, column |-> 0,
     posts_line |-> 0, posts_column |-> 0, exhausted |-> FALSE, result |-> None,
     from |-> "none", last |-> "none", head |-> <<>>, text |-> None]

\* `return` and the unwinding of a panic: parse is over.  Only Ok carries the
\* document out; otherwise accounts_doc is dropped with the other locals.
Return(c, res) ==
    [c EXCEPT !.parser = [ParseStart EXCEPT !.pc = "returned", !.result = Some(res)],
              !.accounts = IF res.kind = "Ok" THEN @ ELSE <<>>,
              !.transactions = IF res.kind = "Ok" THEN @ ELSE <<>>]

\* tokenizer.next().transpose()?
transpose(item) ==
    IF item = None THEN [err |-> None, token |-> None]
    ELSE IF unwrap(item).is_ok THEN [err |-> None, token |-> Some(unwrap(item).v)]
    ELSE [err |-> Some(From(unwrap(item).v)), token |-> None]

\* Mutant: a token of another kind is taken as the expected one.
expect_token_any_kind(item, kind, err_msg, line, column) ==
    IF is_some(transpose(item).err) THEN transpose(item)
    ELSE IF ~is_some(transpose(item).token)
    THEN [err |-> Some(ParseError(err_msg, line, column)), token |-> None]
    ELSE transpose(item)

\* The macro expect_token!.
expect_token(item, kind, err_msg, line, column) ==
    IF is_some(transpose(item).err) THEN transpose(item)
    ELSE IF ~is_some(transpose(item).token)
    THEN [err |-> Some(ParseError(err_msg, line, column)), token |-> None]
    ELSE IF unwrap(transpose(item).token).kind # kind
    THEN [err |-> Some(ParseError(err_msg, unwrap(transpose(item).token).line,
                                  unwrap(transpose(item).token).column)),
          token |-> None]
    ELSE transpose(item)

\* Line 65: the option line.
step_option_line(c, item) ==
    LET e == expect_token(item, "OptionLine", "expected option line", 0, 0)
    IN  IF is_some(e.err) THEN Return(c, ReturnedErr(unwrap(e.err)))
        ELSE [c EXCEPT !.parser.pc = "tx_open_loop"]

\* Mutant: a further option line is skipped like a blank line.
step_tx_open_loop_options(c, item) ==
    LET r == transpose(item)
    IN  IF is_some(r.err) THEN Return(c, ReturnedErr(unwrap(r.err)))
        ELSE IF ~is_some(r.token) THEN Return(c, ReturnedOk)
        ELSE IF unwrap(r.token).kind \in {"Newline", "OptionLine"} THEN c
        ELSE IF unwrap(r.token).kind # "Date"
        THEN Return(c, ReturnedErr(ParseError("expected date", unwrap(r.token).line,
                                              unwrap(r.token).column)))
        ELSE [c EXCEPT !.parser.pc = "directive", !.parser.date = Some(unwrap(r.token).value)]

\* Line 74: the head of 'tx_open_loop.
step_tx_open_loop(c, item) ==
    LET r == transpose(item)
    IN  IF is_some(r.err) THEN Return(c, ReturnedErr(unwrap(r.err)))
        ELSE IF ~is_some(r.token) THEN Return(c, ReturnedOk)
        ELSE IF unwrap(r.token).kind = "Newline" THEN c
        ELSE IF unwrap(r.token).kind # "Date"
        THEN Return(c, ReturnedErr(ParseError("expected date", unwrap(r.token).line,
                                              unwrap(r.token).column)))
        ELSE [c EXCEPT !.parser.pc = "directive", !.parser.date = Some(unwrap(r.token).value)]

\* Line 87: the token after the date.
step_directive(c, item) ==
    LET r == transpose(item)
    IN  IF is_some(r.err) THEN Return(c, ReturnedErr(unwrap(r.err)))
        ELSE IF is_some(r.token) /\ unwrap(r.token).kind = "DirectiveOpen"
        THEN [c EXCEPT !.parser.pc = "open_account",
                       !.parser.line = unwrap(r.token).line,
                       !.parser.column = unwrap(r.token).column]
        ELSE IF is_some(r.token) /\ unwrap(r.token).kind = "DirectivePostTx"
        THEN [c EXCEPT !.parser.pc = "tx_description",
                       !.parser.line = unwrap(r.token).line,
                       !.parser.column = unwrap(r.token).column]
        ELSE Return(c, ReturnedErr(ParseError(
                 "expected either open or post transaction directive", 0, 0)))

\* Line 93: the account of an open directive.
step_open_account(c, item) ==
    LET e == expect_token(item, "Account", "expected account", c.parser.line, c.parser.column)
    IN  IF is_some(e.err) THEN Return(c, ReturnedErr(unwrap(e.err)))
        ELSE [c EXCEPT !.parser.pc = "open_currency",
                       !.parser.account = Some(unwrap(e.token).value),
                       !.parser.line = unwrap(e.token).line,
                       !.parser.column = unwrap(e.token).column]

\* Back to the head of 'tx_open_loop: the locals of the directive go out of scope.
ToTopLevel(c) ==
    [c EXCEPT !.parser = [ParseStart EXCEPT !.pc = "tx_open_loop",
                                            !.exhausted = c.parser.exhausted]]

\* Lines 101-122: the currency of an open directive, then open_an_account.
step_open_currency(c, item) ==
    LET e == expect_token(item, "Currency", "expected amount", c.parser.line, c.parser.column)
        opening_date == date_parse(unwrap(c.parser.date))
        r == open_an_account(c.accounts,
                 Account(AccountId(unwrap(c.parser.account).name, unwrap(c.parser.account).type_),
                         unwrap(e.token).value, unwrap(opening_date)))
    IN  IF is_some(e.err) THEN Return(c, ReturnedErr(unwrap(e.err)))
        ELSE IF ~is_some(opening_date) THEN Return(c, Panicked)
        ELSE IF r.ret # "Ok"
        THEN [Return(c, ReturnedErr(ParseError("account already exists", 0, 0)))
                 EXCEPT !.op = "open_an_account", !.ret = r.ret]
        ELSE [c EXCEPT !.parser.pc = "open_end", !.accounts = r.accounts,
                       !.op = "open_an_account", !.ret = "Ok"]

\* Line 127: the end of an open directive.
step_open_end(c, item) ==
    LET r == transpose(item)
    IN  IF is_some(r.err) THEN Return(c, ReturnedErr(unwrap(r.err)))
        ELSE IF ~is_some(r.token) THEN Return(c, ReturnedOk)
        ELSE IF unwrap(r.token).kind # "Newline"
        THEN Return(c, ReturnedErr(ParseError("expected newline", unwrap(r.token).line,
                                              unwrap(r.token).column)))
        ELSE ToTopLevel(c)

\* Line 146: the description of a transaction header.
step_tx_description(c, item) ==
    LET e == expect_token(item, "TxDescription", "expected tx description",
                          c.parser.line, c.parser.column)
    IN  IF is_some(e.err) THEN Return(c, ReturnedErr(unwrap(e.err)))
        ELSE [c EXCEPT !.parser.pc = "tx_newline",
                       !.parser.line = unwrap(e.token).line,
                       !.parser.column = unwrap(e.token).column]

\* Lines 154-162: the end of the header line; the postings start empty.
step_tx_newline(c, item) ==
    LET e == expect_token(item, "Newline", "expected newline", c.parser.line, c.parser.column)
    IN  IF is_some(e.err) THEN Return(c, ReturnedErr(unwrap(e.err)))
        ELSE [c EXCEPT !.parser.pc = "posts_loop",
                       !.parser.postings = <<>>,
                       !.parser.line = unwrap(e.token).line,
                       !.parser.column = unwrap(e.token).column,
                       !.parser.posts_line = unwrap(e.token).line,
                       !.parser.posts_column = unwrap(e.token).column]

\* Mutant: the block is stored without the ledger's checks.
submit_unvalidated(c, postings) ==
    LET date == date_parse(unwrap(c.parser.date))
    IN  IF ~is_some(date) THEN Return(c, Panicked)
        ELSE [c EXCEPT !.transactions = Append(@, Transaction(unwrap(date), "todo", ZERO, postings)),
                       !.op = "add_transaction", !.ret = "Ok"]

\* accounts_doc.add_transaction(date.parse().unwrap(), "todo", postings).unwrap()
submit(c, postings) ==
    LET date == date_parse(unwrap(c.parser.date))
        r == add_transaction(c.accounts, c.transactions, unwrap(date), "todo", postings)
    IN  IF ~is_some(date) THEN Return(c, Panicked)
        ELSE IF r.ret # "Ok"
        THEN [Return(c, Panicked) EXCEPT !.op = "add_transaction", !.ret = r.ret]
        ELSE [c EXCEPT !.transactions = r.transactions,
                       !.op = "add_transaction", !.ret = "Ok"]

\* Lines 272-274: the block is over; the transaction is added and the
\* top-level loop goes on.
end_of_block(c, exhausted) ==
    IF is_some(submit(c, c.parser.postings).parser.result)
    THEN submit(c, c.parser.postings)
    ELSE ToTopLevel([submit(c, c.parser.postings) EXCEPT !.parser.exhausted = exhausted])

\* Lines 243-246 and 258-261: the input ends after a posting; the
\* transaction is added and parse returns the document.
end_of_input(c, postings) ==
    IF is_some(submit(c, postings).parser.result)
    THEN submit(c, postings)
    ELSE Return(submit(c, postings), ReturnedOk)

\* Mutant: a token that starts no posting line ends the block like a blank line.
step_posts_loop_lenient(c, item) ==
    LET r == transpose(item)
    IN  IF is_some(r.err) THEN Return(c, ReturnedErr(unwrap(r.err)))
        ELSE IF ~is_some(r.token) THEN end_of_block(c, TRUE)
        ELSE IF unwrap(r.token).kind # "Account" THEN end_of_block(c, FALSE)
        ELSE [c EXCEPT !.parser.pc = "post_amount",
                       !.parser.account = Some(unwrap(r.token).value)]

\* Mutant: the end of input at the start of a posting line is an error.
step_posts_loop_strict(c, item) ==
    LET r == transpose(item)
    IN  IF is_some(r.err) THEN Return(c, ReturnedErr(unwrap(r.err)))
        ELSE IF ~is_some(r.token)
        THEN Return(c, ReturnedErr(ParseError("expected account", c.parser.line,
                                              c.parser.column)))
        ELSE IF unwrap(r.token).kind = "Newline" THEN end_of_block(c, FALSE)
        ELSE IF unwrap(r.token).kind # "Account"
        THEN Return(c, ReturnedErr(ParseError("expected account", unwrap(r.token).line,
                                              unwrap(r.token).column)))
        ELSE [c EXCEPT !.parser.pc = "post_amount",
                       !.parser.account = Some(unwrap(r.token).value)]

\* Line 164: the head of 'posts_loop.
step_posts_loop(c, item) ==
    LET r == transpose(item)
    IN  IF is_some(r.err) THEN Return(c, ReturnedErr(unwrap(r.err)))
        ELSE IF ~is_some(r.token) THEN end_of_block(c, TRUE)
        ELSE IF unwrap(r.token).kind = "Newline" THEN end_of_block(c, FALSE)
        ELSE IF unwrap(r.token).kind # "Account"
        THEN Return(c, ReturnedErr(ParseError("expected account", unwrap(r.token).line,
                                              unwrap(r.token).column)))
        ELSE [c EXCEPT !.parser.pc = "post_amount",
                       !.parser.account = Some(unwrap(r.token).value)]

\* Line 178: the amount of a posting.
step_post_amount(c, item) ==
    LET e == expect_token(item, "Amount", "expected amount", c.parser.line, c.parser.column)
    IN  IF is_some(e.err) THEN Return(c, ReturnedErr(unwrap(e.err)))
        ELSE [c EXCEPT !.parser.pc = "post_end",
                       !.parser.amount = Some(unwrap(e.token).value),
                       !.parser.line = unwrap(e.token).line,
                       !.parser.column = unwrap(e.token).column]

RegularOf(c) ==
    Regular(unwrap(c.parser.account), unwrap(c.parser.amount).amount,
            unwrap(c.parser.amount).currency)

ConversionOf(c) ==
    Conversion(unwrap(c.parser.account), unwrap(c.parser.amount).amount,
               unwrap(c.parser.amount).currency, unwrap(c.parser.conversion).amount,
               unwrap(c.parser.conversion).currency)

\* `continue`: the posting is pushed and the next iteration of 'posts_loop
\* starts with the locals of the loop's scope.
next_posting(c, posting) ==
    [c EXCEPT !.parser.pc = "posts_loop",
              !.parser.postings = Append(@, posting),
              !.parser.account = None, !.parser.amount = None, !.parser.conversion = None,
              !.parser.line = c.parser.posts_line, !.parser.column = c.parser.posts_column]

\* Line 186: the token after the amount of a posting.
step_post_end(c, item) ==
    LET r == transpose(item)
    IN  IF is_some(r.err) THEN Return(c, ReturnedErr(unwrap(r.err)))
        ELSE IF ~is_some(r.token)
        THEN end_of_input(c, Append(c.parser.postings, RegularOf(c)))
        ELSE IF unwrap(r.token).kind = "Newline" THEN next_posting(c, RegularOf(c))
        ELSE IF unwrap(r.token).kind = "At"
        THEN [c EXCEPT !.parser.pc = "conversion_amount",
                       !.parser.line = unwrap(r.token).line,
                       !.parser.column = unwrap(r.token).column]
        ELSE Return(c, ReturnedErr(ParseError("expected newline, end of file or @",
                                              c.parser.line, c.parser.column)))

\* Line 206: the amount after `@`.
step_conversion_amount(c, item) ==
    LET e == expect_token(item, "Amount", "expected amount", c.parser.line, c.parser.column)
    IN  IF is_some(e.err) THEN Return(c, ReturnedErr(unwrap(e.err)))
        ELSE [c EXCEPT !.parser.pc = "conversion_end",
                       !.parser.conversion = Some(unwrap(e.token).value)]

\* Line 214: the end of a conversion posting.
step_conversion_end(c, item) ==
    LET r == transpose(item)
    IN  IF is_some(r.err) THEN Return(c, ReturnedErr(unwrap(r.err)))
        ELSE IF ~is_some(r.token)
        THEN end_of_input(c, Append(c.parser.postings, ConversionOf(c)))
        ELSE IF unwrap(r.token).kind # "Newline"
        THEN Return(c, ReturnedErr(ParseError("expected newline", unwrap(r.token).line,
                                              unwrap(r.token).column)))
        ELSE next_posting(c, ConversionOf(c))

\* ------------------------------------------------------------ tokenizer.rs
\* A buffer is a sequence of characters, each a string of length one; the
\* cursor is a position between characters, 0 .. Len(buffer).

Digit == {"0", "1", "2", "3", "4", "5", "6", "7", "8", "9"}

Upper == {"A", "B", "C", "D", "E", "F", "G", "H", "I", "J", "K", "L", "M",
          "N", "O", "P", "Q", "R", "S", "T", "U", "V", "W", "X", "Y", "Z"}

Lower == {"a", "b", "c", "d", "e", "f", "g", "h", "i", "j", "k", "l", "m",
          "n", "o", "p", "q", "r", "s", "t", "u", "v", "w", "x", "y", "z"}

\* The characters of the buffers: letters, digits, punctuation and white space.
Char ==
    Digit \cup Upper \cup Lower
        \cup {" ", "\t", "\n", "\r", "\f", "-", ".", ",", ":", ";", "*", "@", "\"", "_"}

\* [ \t]
Blank == {" ", "\t"}

\* \s
Space == {" ", "\t", "\n", "\r", "\f"}

\* The position behind the longest run of characters of the class after i.
RECURSIVE Run(_, _, _)
Run(buffer, i, class) ==
    IF i < Len(buffer) /\ buffer[i + 1] \in class THEN Run(buffer, i + 1, class) ELSE i

\* The positions a non-empty run of characters of the class can end at.
Plus(buffer, i, class) == (i + 1) .. Run(buffer, i, class)

\* The word stands in the buffer directly after position i.
Literal(buffer, i, word) ==
    i + Len(word) <= Len(buffer) /\ SubSeq(buffer, i + 1, i + Len(word)) = word

\* (?:[ \t\n\r]|$)
Followed(buffer, j) == j = Len(buffer) \/ buffer[j + 1] \in {" ", "\t", "\n", "\r"}

\* ^(\d{4}-\d{2}-\d{2})(?:[ \t\n\r]|$): the end of the capture group.
DATE_REGEX(buffer, i) ==
    IF /\ i + 10 <= Len(buffer)
       /\ \A k \in {1, 2, 3, 4, 6, 7, 9, 10} : buffer[i + k] \in Digit
       /\ buffer[i + 5] = "-"
       /\ buffer[i + 8] = "-"
       /\ Followed(buffer, i + 10)
    THEN Some(i + 10)
    ELSE None

\* (?:,\d{3})*: the positions the groups of thousands can end at.
RECURSIVE Thousands(_, _)
Thousands(buffer, j) ==
    {j} \cup (IF /\ j + 4 <= Len(buffer)
                 /\ buffer[j + 1] = ","
                 /\ \A k \in 2..4 : buffer[j + k] \in Digit
              THEN Thousands(buffer, j + 4)
              ELSE {})

\* ^(-?(?:\d{1,3}(?:,\d{3})*|\d+)(?:\.\d+)?)[ \t]*([A-Z]{3,})(?:[ \t\n\r]|$):
\* the end of the first group, the start and the end of the second.
AMOUNT_REGEX(buffer, i) ==
    LET signs == IF i < Len(buffer) /\ buffer[i + 1] = "-" THEN {i, i + 1} ELSE {i}
        numbers ==
            UNION {Plus(buffer, j, Digit)
                     \cup UNION {Thousands(buffer, k) :
                                   k \in {x \in Plus(buffer, j, Digit) : x <= j + 3}} :
                   j \in signs}
        fractions ==
            UNION {{n} \cup (IF n < Len(buffer) /\ buffer[n + 1] = "."
                             THEN Plus(buffer, n + 1, Digit) ELSE {}) :
                   n \in numbers}
        matches ==
            UNION {UNION {{[amount_end |-> e, currency_start |-> c, currency_end |-> k] :
                             k \in {x \in Plus(buffer, c, Upper) :
                                      x >= c + 3 /\ Followed(buffer, x)}} :
                          c \in e .. Run(buffer, e, Blank)} :
                   e \in fractions}
    IN  IF matches = {} THEN None ELSE Some(CHOOSE m \in matches : TRUE)

\* ^[ \t]+
WHITESPACE_REGEX(buffer, i) ==
    IF Run(buffer, i, Blank) > i THEN Some(Run(buffer, i, Blank)) ELSE None

\* "[^"]+": the position behind the closing quote.
Quoted_string(buffer, i) ==
    LET body == Run(buffer, i + 1, Char \ {"\""})
    IN  IF /\ i < Len(buffer) /\ buffer[i + 1] = "\""
           /\ body > i + 1
           /\ body < Len(buffer) /\ buffer[body + 1] = "\""
        THEN Some(body + 1)
        ELSE None

\* ^(option\s+"[^"]+"\s+"[^"]+")(?:[ \t\n\r]|$)
OPTION_REGEX(buffer, i) ==
    LET word == <<"o", "p", "t", "i", "o", "n">>
        gap1 == Run(buffer, i + 6, Space)
        key == Quoted_string(buffer, gap1)
        gap2 == Run(buffer, unwrap(key), Space)
        value == Quoted_string(buffer, gap2)
    IN  IF /\ Literal(buffer, i, word)
           /\ gap1 > i + 6
           /\ is_some(key)
           /\ gap2 > unwrap(key)
           /\ is_some(value)
           /\ Followed(buffer, unwrap(value))
        THEN value
        ELSE None

\* Mutant: `open` is recognized whatever follows it.
DIRECTIVE_OPEN_REGEX_unanchored(buffer, i) ==
    IF Literal(buffer, i, <<"o", "p", "e", "n">>) THEN Some(i + 4) ELSE None

\* ^(open)(?:[ \t\n\r]|$)
DIRECTIVE_OPEN_REGEX(buffer, i) ==
    IF Literal(buffer, i, <<"o", "p", "e", "n">>) /\ Followed(buffer, i + 4)
    THEN Some(i + 4) ELSE None

\* ^(\*)(?:[ \t\n\r]|$)
DIRECTIVE_POST_TX_REGEX(buffer, i) ==
    IF Literal(buffer, i, <<"*">>) /\ Followed(buffer, i + 1) THEN Some(i + 1) ELSE None

\* The labels of the account types in the text, and AccountType::from_str.
AccountLabels ==
    {<<<<"A", "s", "s", "e", "t", "s">>, "Asset">>,
     <<<<"L", "i", "a", "b", "i", "l", "i", "t", "i", "e", "s">>, "Liability">>,
     <<<<"E", "x", "p", "e", "n", "s", "e", "s">>, "Expense">>,
     <<<<"I", "n", "c", "o", "m", "e">>, "Income">>,
     <<<<"E", "q", "u", "i", "t", "y">>, "Equity">>}

\* ^(Assets|Liabilities|Expenses|Income|Equity):([A-Z][A-Za-z0-9-]+)(?:[ \t\n\r]|$):
\* the type the first group names, the start and the end of the second.
ACCOUNT_REGEX(buffer, i) ==
    LET NameChar == Upper \cup Lower \cup Digit \cup {"-"}
        name_start(l) == i + Len(l[1]) + 1
        name_end(l) == Run(buffer, name_start(l) + 1, NameChar)
        matches ==
            {[type_ |-> l[2], name_start |-> name_start(l), name_end |-> name_end(l)] :
               l \in {x \in AccountLabels :
                        /\ Literal(buffer, i, x[1] \o <<":">>)
                        /\ name_start(x) < Len(buffer)
                        /\ buffer[name_start(x) + 1] \in Upper
                        /\ name_end(x) > name_start(x) + 1
                        /\ Followed(buffer, name_end(x))}}
    IN  IF matches = {} THEN None ELSE Some(CHOOSE m \in matches : TRUE)

\* ^([A-Z]+)(?:[ \t\n\r]|$)
CURRENCY_REGEX(buffer, i) ==
    IF Run(buffer, i, Upper) > i /\ Followed(buffer, Run(buffer, i, Upper))
    THEN Some(Run(buffer, i, Upper)) ELSE None

\* Mutant: the comment takes the end of its line with it.
COMMENT_REGEX_with_line_end(buffer, i) ==
    IF i < Len(buffer) /\ buffer[i + 1] = ";"
    THEN LET e == Run(buffer, i + 1, Char \ {"\r", "\n"})
         IN  Some(IF Literal(buffer, e, <<"\n">>) THEN e + 1 ELSE e)
    ELSE None

\* ^;[^\r\n]*
COMMENT_REGEX(buffer, i) ==
    IF i < Len(buffer) /\ buffer[i + 1] = ";"
    THEN Some(Run(buffer, i + 1, Char \ {"\r", "\n"})) ELSE None

\* ^("[^"]+")(?:[ \t\n\r]|$)
TX_DESCRIPTION_REGEX(buffer, i) ==
    IF is_some(Quoted_string(buffer, i)) /\ Followed(buffer, unwrap(Quoted_string(buffer, i)))
    THEN Quoted_string(buffer, i) ELSE None

\* ^(@)(?:[ \t\n\r]|$)
AT_REGEX(buffer, i) ==
    IF Literal(buffer, i, <<"@">>) /\ Followed(buffer, i + 1) THEN Some(i + 1) ELSE None

\* ^\r?\n
NEWLINE_REGEX(buffer, i) ==
    IF Literal(buffer, i, <<"\n">>) THEN Some(i + 1)
    ELSE IF Literal(buffer, i, <<"\r", "\n">>) THEN Some(i + 2)
    ELSE None

\* The digits of 2^96 - 1, the largest mantissa of a Decimal.
MaxMantissa ==
    <<"7", "9", "2", "2", "8", "1", "6", "2", "5", "1", "4", "2", "6", "4", "3", "3",
      "7", "5", "9", "3", "5", "4", "3", "9", "5", "0", "3", "3", "5">>

DigitValue(ch) ==
    CHOOSE v \in 0..9 : <<"0", "1", "2", "3", "4", "5", "6", "7", "8", "9">>[v + 1] = ch

RECURSIVE NumberOf(_)
NumberOf(digits) ==
    IF digits = <<>> THEN 0
    ELSE 10 * NumberOf(SubSeq(digits, 1, Len(digits) - 1)) + DigitValue(digits[Len(digits)])

\* The digits, leading zeros dropped.
RECURSIVE Significant(_)
Significant(digits) ==
    IF digits # <<>> /\ digits[1] = "0" THEN Significant(Tail(digits)) ELSE digits

\* The number the digits write is larger than the one the limit writes.
Exceeds(digits, limit) ==
    \/ Len(digits) > Len(limit)
    \/ /\ Len(digits) = Len(limit)
       /\ \E k \in 1..Len(digits) :
             /\ SubSeq(digits, 1, k - 1) = SubSeq(limit, 1, k - 1)
             /\ DigitValue(digits[k]) > DigitValue(limit[k])

\* amount.as_str().replace(",", "").parse::<Decimal>(): the text of a number
\* as AMOUNT_REGEX captures it, read as a Decimal; None where the mantissa
\* does not fit.
Decimal_from_str(text) ==
    LET plain == SelectSeq(text, LAMBDA ch : ch # ",")
        negative == plain[1] = "-"
        unsigned == IF negative THEN Tail(plain) ELSE plain
        point == IF \E k \in 1..Len(unsigned) : unsigned[k] = "."
                 THEN CHOOSE k \in 1..Len(unsigned) : unsigned[k] = "."
                 ELSE Len(unsigned) + 1
        digits == SubSeq(unsigned, 1, point - 1) \o SubSeq(unsigned, point + 1, Len(unsigned))
        scale == Len(unsigned) - point
    IN  IF Exceeds(Significant(digits), MaxMantissa) THEN None
        ELSE Some(Dec((IF negative THEN -1 ELSE 1) * NumberOf(digits),
                      IF scale < 0 THEN 0 ELSE scale))

\* str::lines(): the number of lines of the text, each ended by "\n" but
\* possibly the last, which counts only if it is not empty.
RECURSIVE lines_count(_)
lines_count(text) ==
    IF text = <<>> THEN 0
    ELSE IF \E k \in 1..Len(text) : text[k] = "\n"
    THEN 1 + lines_count(SubSeq(text, (CHOOSE k \in 1..Len(text) :
                                         /\ text[k] = "\n"
                                         /\ \A j \in 1..(k - 1) : text[j] # "\n") + 1,
                                Len(text)))
    ELSE 1

\* str::rfind('\n'): the index, from 0, of the last "\n" of the text.
rfind_newline(text) ==
    IF \E k \in 1..Len(text) : text[k] = "\n"
    THEN Some((CHOOSE k \in 1..Len(text) :
                 /\ text[k] = "\n"
                 /\ \A j \in (k + 1)..Len(text) : text[j] # "\n") - 1)
    ELSE None

unwrap_or(o, default) == IF is_some(o) THEN unwrap(o) ELSE default

\* Tokenizer::new
Tokenizer_new(buffer) == [buffer |-> buffer, cursor |-> 0]

\* Mutant: the line that a final "\n" opens is not counted.
current_line_uncorrected(self) ==
    IF self.cursor = 0 THEN 1
    ELSE lines_count(SubSeq(self.buffer, 1, self.cursor))

current_line(self) ==
    IF self.cursor = 0 THEN 1
    ELSE LET lines == lines_count(SubSeq(self.buffer, 1, self.cursor))
         IN  IF self.buffer[self.cursor] = "\n" THEN lines + 1 ELSE lines

current_column(self) ==
    IF self.cursor = 0 THEN 1
    ELSE LET line_start_index ==
                 unwrap_or(rfind_newline(SubSeq(self.buffer, 1, self.cursor)), 0)
         IN  self.cursor - line_start_index

\* Mutant: the token is returned and the cursor stays where it was.
Emit_in_place(self, kind, value, end) ==
    [cursor |-> self.cursor, at |-> self.cursor,
     result |-> Ok(Some(Token(kind, value, current_line(self), current_column(self))))]

\* A token of the kind, with its value, at the cursor; the cursor moves to `end`.
Emit(self, kind, value, end) ==
    [cursor |-> end, at |-> self.cursor,
     result |-> Ok(Some(Token(kind, value, current_line(self), current_column(self))))]

\* A lexical error at the cursor, which stays where it is.
Fail(self, msg) ==
    [cursor |-> self.cursor, at |-> self.cursor,
     result |-> Err(TokenizeError(msg, current_line(self), current_column(self)))]

\* Tokenizer::next_token: the result, the cursor after the call, and the
\* cursor at which the result was made.
RECURSIVE next_token(_)
next_token(self) ==
    LET buffer == self.buffer
        cursor == self.cursor
        amount == unwrap(AMOUNT_REGEX(buffer, cursor))
        account == unwrap(ACCOUNT_REGEX(buffer, cursor))
    IN  IF cursor >= Len(buffer)
        THEN [cursor |-> cursor, at |-> cursor, result |-> Ok(None)]
        ELSE IF is_some(WHITESPACE_REGEX(buffer, cursor))
        THEN next_token([self EXCEPT !.cursor = unwrap(WHITESPACE_REGEX(buffer, cursor))])
        ELSE IF is_some(OPTION_REGEX(buffer, cursor))
        THEN Emit(self, "OptionLine", None, unwrap(OPTION_REGEX(buffer, cursor)))
        ELSE IF is_some(COMMENT_REGEX(buffer, cursor))
        THEN next_token([self EXCEPT !.cursor = unwrap(COMMENT_REGEX(buffer, cursor))])
        ELSE IF is_some(DATE_REGEX(buffer, cursor))
        THEN Emit(self, "Date", SubSeq(buffer, cursor + 1, unwrap(DATE_REGEX(buffer, cursor))),
                  unwrap(DATE_REGEX(buffer, cursor)))
        ELSE IF is_some(AMOUNT_REGEX(buffer, cursor))
        THEN IF ~is_some(Decimal_from_str(SubSeq(buffer, cursor + 1, amount.amount_end)))
             THEN Fail(self, "decimal has too many digits")
             ELSE Emit(self, "Amount",
                       Amount(SubSeq(buffer, amount.currency_start + 1, amount.currency_end),
                              unwrap(Decimal_from_str(
                                         SubSeq(buffer, cursor + 1, amount.amount_end)))),
                       amount.currency_end)
        ELSE IF is_some(DIRECTIVE_OPEN_REGEX(buffer, cursor))
        THEN Emit(self, "DirectiveOpen", None, unwrap(DIRECTIVE_OPEN_REGEX(buffer, cursor)))
        ELSE IF is_some(DIRECTIVE_POST_TX_REGEX(buffer, cursor))
        THEN Emit(self, "DirectivePostTx", None,
                  unwrap(DIRECTIVE_POST_TX_REGEX(buffer, cursor)))
        ELSE IF is_some(ACCOUNT_REGEX(buffer, cursor))
        THEN Emit(self, "Account",
                  AccountId(SubSeq(buffer, account.name_start + 1, account.name_end),
                            account.type_),
                  account.name_end)
        ELSE IF is_some(CURRENCY_REGEX(buffer, cursor))
        THEN Emit(self, "Currency",
                  SubSeq(buffer, cursor + 1, unwrap(CURRENCY_REGEX(buffer, cursor))),
                  unwrap(CURRENCY_REGEX(buffer, cursor)))
        ELSE IF is_some(TX_DESCRIPTION_REGEX(buffer, cursor))
        THEN Emit(self, "TxDescription", None, unwrap(TX_DESCRIPTION_REGEX(buffer, cursor)))
        ELSE IF is_some(AT_REGEX(buffer, cursor))
        THEN Emit(self, "At", None, unwrap(AT_REGEX(buffer, cursor)))
        ELSE IF is_some(NEWLINE_REGEX(buffer, cursor))
        THEN Emit(self, "Newline", None, unwrap(NEWLINE_REGEX(buffer, cursor)))
        ELSE Fail(self, "unexpected character sequence")

\* Result::transpose: Result<Option<Token>, TokenizeError> as the item of the iterator.
Result_transpose(r) ==
    IF ~r.is_ok THEN Some(r)
    ELSE IF r.v = None THEN None
    ELSE Some(Ok(unwrap(r.v)))

\* A Tokenizer before the first call of next, with what the claims read of
\* its last call: the cursor before it, the cursor at which its result was
\* made, the item it returned, and whether there was a call at all.
Fresh(buffer) ==
    [buffer |-> buffer, cursor |-> 0, before |-> 0, at |-> 0, item |-> None,
     called |-> FALSE]

\* ---------------------------------------------------------------- inputs
\* The caller draws every argument from a pool fixed when it starts: a few
\* accounts it may open, a few postings it may submit and the dates it uses.

Descriptions == {"tx"}

a1 == AccountId("A", "Asset")

a2 == AccountId("A", "Income")

a3 == AccountId("B", "Income")

AccountIds == {a1, a2, a3}

\* Regular postings in one currency, around the tolerance.
PoolRegular ==
    [accounts |-> {Account(a1, "GBP", 1), Account(a2, "GBP", 1)},
     postings |-> {Regular(a1, Dec(1, 0), "GBP"), Regular(a2, Dec(-1, 0), "GBP"),
                   Regular(a1, Dec(5, 3), "GBP"), Regular(a2, Dec(-5, 3), "GBP")},
     dates |-> {1}]

\* Conversion postings, two transaction currencies and an auto-posting.
PoolConversion ==
    [accounts |-> {Account(a1, "GBP", 1), Account(a3, "USD", 1)},
     postings |-> {Regular(a1, Dec(1, 0), "GBP"), Regular(a3, Dec(-1, 0), "USD"),
                   Conversion(a3, Dec(-2, 0), "USD", Dec(5, 1), "GBP"), Auto(a1)},
     dates |-> {1}]

\* Auto postings, to accounts of the transaction currency and of another one.
PoolAuto ==
    [accounts |-> {Account(a1, "GBP", 1), Account(a3, "USD", 1)},
     postings |-> {Auto(a1), Auto(a3), Regular(a1, Dec(1, 0), "GBP")},
     dates |-> {1}]

\* Opening dates, and the same AccountId offered with two currencies and dates.
PoolDates ==
    [accounts |-> {Account(a1, "GBP", 2), Account(a1, "USD", 1), Account(a2, "GBP", 1)},
     postings |-> {Auto(a1), Regular(a2, Dec(1, 0), "GBP")},
     dates |-> {1, 2}]

\* Postings whose stated account currency is, or is not, the account's own.
PoolCurrency ==
    [accounts |-> {Account(a1, "GBP", 1), Account(a1, "USD", 1), Account(a3, "USD", 1)},
     postings |-> {Regular(a1, Dec(1, 0), "GBP"),
                   Conversion(a3, Dec(-1, 0), "USD", ONE, "GBP"),
                   Conversion(a3, Dec(1, 0), "GBP", ONE, "GBP")},
     dates |-> {1}]

\* Postings that fail two checks at once: an account not open yet that has
\* another currency, a wrong account currency with another transaction
\* currency, a second auto-posting to an account not open yet.
PoolOrder ==
    [accounts |-> {Account(a1, "GBP", 2), Account(a3, "USD", 1)},
     postings |-> {Regular(a1, Dec(1, 0), "USD"),
                   Conversion(a3, Dec(-1, 0), "USD", ONE, "GBP"), Auto(a1), Auto(a3)},
     dates |-> {1, 2}]

Pools == {PoolRegular, PoolConversion, PoolAuto, PoolDates, PoolCurrency}

RECURSIVE StoredPostings(_)
StoredPostings(txs) ==
    IF txs = <<>> THEN 0 ELSE Len(Head(txs).postings) + StoredPostings(Tail(txs))

\* The posting lists the caller can still build: the document and the call
\* together hold at most MaxPostings postings.
PostingListsOf(P, txs) ==
    UNION {[1..n -> P] : n \in 0..(MaxPostings - StoredPostings(txs))}

\* ----------------------------------------------------------- the machine

Init ==
    /\ accounts = <<>>
    /\ transactions = <<>>
    /\ op = "new"
    /\ ret = "Ok"
    /\ iter = None
    /\ items = <<>>
    /\ ended = FALSE
    /\ pool \in Pools
    /\ parser = ParseStart
    /\ tokenizer = Fresh(<<>>)

OpenAnAccount ==
    /\ iter = None
    /\ \E account \in pool.accounts :
         LET r == open_an_account(accounts, account)
         IN  /\ r.ret = "Ok" => Len(accounts) < MaxAccounts
             /\ accounts' = r.accounts
             /\ ret' = r.ret
    /\ op' = "open_an_account"
    /\ UNCHANGED <<transactions, iter, items, ended, pool, parser, tokenizer>>

AddTransaction ==
    /\ iter = None
    /\ \E date \in pool.dates, description \in Descriptions,
          postings \in PostingListsOf(pool.postings, transactions) :
         LET r == add_transaction(accounts, transactions, date, description, postings)
         IN  /\ r.ret = "Ok" => Len(transactions) < MaxTx
             /\ transactions' = r.transactions
             /\ ret' = r.ret
    /\ op' = "add_transaction"
    /\ UNCHANGED <<accounts, iter, items, ended, pool, parser, tokenizer>>

Balances ==
    /\ iter = None
    /\ iter' = Some(0)
    /\ items' = <<>>
    /\ ended' = FALSE
    /\ op' = "balances"
    /\ ret' = "Ok"
    /\ UNCHANGED <<accounts, transactions, pool, parser, tokenizer>>

BalancesNext ==
    /\ iter # None
    /\ LET r == next(accounts, transactions, unwrap(iter))
       IN  /\ iter' = Some(r.position)
           /\ items' = IF is_some(r.item) THEN Append(items, unwrap(r.item)) ELSE items
           /\ ended' = ~is_some(r.item)
           /\ ret' = IF is_some(r.item) THEN "Some" ELSE "None"
    /\ op' = "next"
    /\ UNCHANGED <<accounts, transactions, pool, parser, tokenizer>>

BalancesDrop ==
    /\ iter # None
    /\ iter' = None
    /\ items' = <<>>
    /\ ended' = FALSE
    /\ op' = "drop"
    /\ ret' = "Ok"
    /\ UNCHANGED <<accounts, transactions, pool, parser, tokenizer>>

Next == OpenAnAccount \/ AddTransaction \/ Balances \/ BalancesNext \/ BalancesDrop

Spec == Init /\ [][Next]_vars

\* The ledger again, for the claims about the checks add_transaction makes
\* on each posting of a list.
SpecPostings == Init /\ [][Next]_vars

\* The ledger of a caller whose postings fail several checks at once.
InitOrder ==
    /\ accounts = <<>>
    /\ transactions = <<>>
    /\ op = "new"
    /\ ret = "Ok"
    /\ iter = None
    /\ items = <<>>
    /\ ended = FALSE
    /\ pool = PoolOrder
    /\ parser = ParseStart
    /\ tokenizer = Fresh(<<>>)

SpecOrder == InitOrder /\ [][Next]_vars

\* ------------------------------------------------- the machine of parse()
\* The token stream is any iterator: each pull delivers one of the items of
\* the pool, or the end of the stream; after its end it delivers nothing more.

pos1 == [line |-> 1, column |-> 1]

pos2 == [line |-> 2, column |-> 3]

TokensAt(kinds, values, positions) ==
    {Token(k, None, q.line, q.column) : k \in kinds, q \in positions}
        \cup {Token(v[1], v[2], q.line, q.column) : v \in values, q \in positions}

\* Every kind of token at two positions, and a lexical error.
StreamGrammar ==
    [tokens |-> TokensAt({"OptionLine", "Newline", "DirectiveOpen", "DirectivePostTx",
                          "TxDescription", "At"},
                         {<<"Date", <<2012, 1, 1>>>>, <<"Account", a1>>,
                          <<"Currency", "GBP">>,
                          <<"Amount", Amount("GBP", ZERO)>>},
                         {pos1, pos2}),
     errors |-> {TokenizeError("decimal has too many digits", 2, 3)}]

\* Directives the ledger accepts or rejects: an account in two currencies,
\* three dates of which one is no calendar date.
StreamLedger ==
    [tokens |-> TokensAt({"OptionLine", "Newline", "DirectiveOpen", "DirectivePostTx",
                          "TxDescription"},
                         {<<"Date", <<2012, 1, 1>>>>, <<"Date", <<2012, 1, 2>>>>,
                          <<"Date", <<2012, 13, 1>>>>,
                          <<"Account", a1>>,
                          <<"Currency", "GBP">>, <<"Currency", "USD">>,
                          <<"Amount", Amount("GBP", Dec(1, 0))>>,
                          <<"Amount", Amount("GBP", Dec(-1, 0))>>},
                         {pos1}),
     errors |-> {}]

\* Posting lines with and without a conversion: two amounts that differ in
\* currency and in number, so that each field of a posting tells its origin,
\* and two dates of which one is no calendar date.
StreamConversion ==
    [tokens |-> TokensAt({"OptionLine", "Newline", "DirectiveOpen", "DirectivePostTx",
                          "TxDescription", "At"},
                         {<<"Date", <<2012, 1, 1>>>>, <<"Date", <<2012, 13, 1>>>>,
                          <<"Account", a1>>,
                          <<"Currency", "GBP">>,
                          <<"Amount", Amount("GBP", ONE)>>,
                          <<"Amount", Amount("USD", ZERO)>>},
                         {pos1}),
     errors |-> {}]

Streams == {StreamGrammar, StreamLedger}

StreamItems(stream) ==
    {None} \cup {Some(Ok(t)) : t \in stream.tokens} \cup {Some(Err(e)) : e \in stream.errors}

Context ==
    [parser |-> parser, accounts |-> accounts, transactions |-> transactions,
     op |-> op, ret |-> ret]

\* What a pull delivered: the end of the stream, a lexical error, or a kind of token.
Delivered(item) ==
    IF item = None THEN "end"
    ELSE IF unwrap(item).is_ok THEN unwrap(item).v.kind ELSE "error"

\* One pull at the position pc, followed by the code up to the next pull.
\* The text of the description is kept as long as the block it heads: up
\* to the call of add_transaction or the return of parse.
Pull(pc, item, c) ==
    /\ parser.pc = pc
    /\ parser.exhausted => item = None
    /\ Len(c.accounts) <= MaxAccounts
    /\ Len(c.transactions) <= MaxTx
    /\ StoredPostings(c.transactions) + Len(c.parser.postings) <= MaxPostings
    /\ Len(c.parser.postings) <= MaxBlock
    /\ Len(c.transactions) > Len(transactions)
          => Len(c.transactions[Len(c.transactions)].postings) <= MaxBlock
    /\ parser' = [c.parser EXCEPT !.from = pc, !.last = Delivered(item),
                                  !.head = IF Len(parser.head) < 2
                                           THEN Append(parser.head, Delivered(item))
                                           ELSE parser.head,
                                  !.text = IF c.op = "add_transaction" \/ is_some(c.parser.result)
                                           THEN None ELSE c.parser.text]
    /\ accounts' = c.accounts
    /\ transactions' = c.transactions
    /\ op' = c.op
    /\ ret' = c.ret
    /\ UNCHANGED <<iter, items, ended, pool, tokenizer>>

InitParse ==
    /\ accounts = <<>>
    /\ transactions = <<>>
    /\ op = "new"
    /\ ret = "Ok"
    /\ iter = None
    /\ items = <<>>
    /\ ended = FALSE
    /\ pool \in Streams
    /\ parser = ParseStart
    /\ tokenizer = Fresh(<<>>)

OptionLine ==
    \E item \in StreamItems(pool) : Pull("option_line", item, step_option_line(Context, item))

TxOpenLoop ==
    \E item \in StreamItems(pool) : Pull("tx_open_loop", item, step_tx_open_loop(Context, item))

Directive ==
    \E item \in StreamItems(pool) : Pull("directive", item, step_directive(Context, item))

OpenAccount ==
    \E item \in StreamItems(pool) : Pull("open_account", item, step_open_account(Context, item))

OpenCurrency ==
    \E item \in StreamItems(pool) : Pull("open_currency", item, step_open_currency(Context, item))

OpenEnd ==
    \E item \in StreamItems(pool) : Pull("open_end", item, step_open_end(Context, item))

\* The quoted strings of the transaction headers of the input.
Quoted == {"lunch", "rent"}

\* The TxDescription token carries no text; the text the tokenizer consumed
\* for it is kept beside the locals of the block for the claims to read.
TxDescription ==
    \E item \in StreamItems(pool), text \in Quoted :
        Pull("tx_description", item,
             step_tx_description([Context EXCEPT !.parser.text = Some(text)], item))

TxNewline ==
    \E item \in StreamItems(pool) : Pull("tx_newline", item, step_tx_newline(Context, item))

PostsLoop ==
    \E item \in StreamItems(pool) : Pull("posts_loop", item, step_posts_loop(Context, item))

PostAmount ==
    \E item \in StreamItems(pool) : Pull("post_amount", item, step_post_amount(Context, item))

PostEnd ==
    \E item \in StreamItems(pool) : Pull("post_end", item, step_post_end(Context, item))

ConversionAmount ==
    \E item \in StreamItems(pool) :
        Pull("conversion_amount", item, step_conversion_amount(Context, item))

ConversionEnd ==
    \E item \in StreamItems(pool) :
        Pull("conversion_end", item, step_conversion_end(Context, item))

NextParse ==
    \/ OptionLine \/ TxOpenLoop \/ Directive
    \/ OpenAccount \/ OpenCurrency \/ OpenEnd
    \/ TxDescription \/ TxNewline \/ PostsLoop \/ PostAmount \/ PostEnd
    \/ ConversionAmount \/ ConversionEnd

SpecParse == InitParse /\ [][NextParse]_vars

\* parse() of a stream of posting lines with conversions.
InitConversion ==
    /\ accounts = <<>>
    /\ transactions = <<>>
    /\ op = "new"
    /\ ret = "Ok"
    /\ iter = None
    /\ items = <<>>
    /\ ended = FALSE
    /\ pool = StreamConversion
    /\ parser = ParseStart
    /\ tokenizer = Fresh(<<>>)

SpecConversion == InitConversion /\ [][NextParse]_vars

\* ------------------------------------------------ the machine of Tokenizer
\* A buffer is put together from words and the gaps between them, so that
\* every recognizer meets white space, a line end, the end of the buffer
\* and the start of another word behind its match.

Words ==
    {<<"o", "p", "e", "n">>,
     <<"*">>,
     <<"@">>,
     <<"2", "0", "1", "2", "-", "0", "1", "-", "0", "1">>,
     <<"1", "2", "U", "S", "D">>,
     <<"X">>,
     <<"A", "s", "s", "e", "t", "s", ":", "A", "b">>,
     <<"\"", "d", "\"">>,
     <<"o", "p", "t", "i", "o", "n", " ", "\"", "a", "\"", " ", "\"", "b", "\"">>,
     <<";", "c">>,
     <<"_">>}

\* An amount of one digit too many for a Decimal: 2^96.
TooLong ==
    <<"7", "9", "2", "2", "8", "1", "6", "2", "5", "1", "4", "2", "6", "4", "3", "3",
      "7", "5", "9", "3", "5", "4", "3", "9", "5", "0", "3", "3", "6", "G", "B", "P">>

\* What stands between two words and behind the last.
Gaps == {<<>>, <<" ">>, <<"\n">>}

\* What stands before the first word: nothing, a blank, a line ended by
\* "\r\n", two line ends and a blank.
Leads == {<<>>, <<" ">>, <<"\r", "\n">>, <<"\n", "\n", " ">>}

\* The texts of up to n words, each followed by a gap.
RECURSIVE Texts(_)
Texts(n) ==
    IF n = 0 THEN {<<>>}
    ELSE {<<>>} \cup {w \o g \o t : w \in Words, g \in Gaps, t \in Texts(n - 1)}

\* The labels of the five account types, and two that are none.
TypeLabels ==
    {<<"A", "s", "s", "e", "t", "s">>,
     <<"L", "i", "a", "b", "i", "l", "i", "t", "i", "e", "s">>,
     <<"E", "q", "u", "i", "t", "y">>,
     <<"I", "n", "c", "o", "m", "e">>,
     <<"E", "x", "p", "e", "n", "s", "e", "s">>}

OtherLabels == {<<"A", "s", "s", "e", "t">>, <<"F", "O", "O">>}

\* The names of up to n characters: an uppercase letter, a lowercase
\* letter, a digit and a hyphen in every order.
RECURSIVE NamesOf(_)
NamesOf(n) ==
    IF n = 0 THEN {<<>>}
    ELSE {<<>>} \cup {<<ch>> \o t : ch \in {"A", "b", "1", "-"}, t \in NamesOf(n - 1)}

AccountNames == NamesOf(MaxName) \ {<<>>}

\* An account reference and what follows it.
AccountTexts ==
    {l \o <<":">> \o n \o g : l \in TypeLabels \cup OtherLabels, n \in AccountNames, g \in Gaps}

Buffers(n) ==
    {l \o t : l \in Leads, t \in Texts(n)}
        \cup {l \o TooLong \o g : l \in Leads, g \in Gaps}
        \cup AccountTexts

\* The state of the other parts of the program while a Tokenizer runs.
NoStream == [tokens |-> {}, errors |-> {}]

InitTokenize ==
    /\ accounts = <<>>
    /\ transactions = <<>>
    /\ op = "new"
    /\ ret = "Ok"
    /\ iter = None
    /\ items = <<>>
    /\ ended = FALSE
    /\ pool = NoStream
    /\ parser = ParseStart
    /\ tokenizer \in {Fresh(b) : b \in Buffers(MaxWords)}

\* Iterator::next: self.next_token().transpose()
Tokenizer_next ==
    LET r == next_token(tokenizer)
    IN  /\ tokenizer' = [tokenizer EXCEPT !.cursor = r.cursor,
                                          !.before = tokenizer.cursor,
                                          !.at = r.at,
                                          !.item = Result_transpose(r.result),
                                          !.called = TRUE]
        /\ UNCHANGED <<accounts, transactions, op, ret, iter, items, ended, pool, parser>>

NextTokenize == Tokenizer_next

SpecTokenize == InitTokenize /\ [][NextTokenize]_vars

\* -------------------------------------------- the Tokenizer feeding parse
\* parse(Tokenizer::new(text)): every pull of parse is a call of next on a
\* Tokenizer over the text of a ledger file.

\* option "a" "b"
OptionText ==
    <<"o", "p", "t", "i", "o", "n", " ", "\"", "a", "\"", " ", "\"", "b", "\"", "\n">>

\* 2012-01-01 open Assets:Ab GBP
OpenText ==
    <<"2", "0", "1", "2", "-", "0", "1", "-", "0", "1", " ", "o", "p", "e", "n", " ", "A",
      "s", "s", "e", "t", "s", ":", "A", "b", " ", "G", "B", "P", "\n">>

\* The header of a transaction block, on a calendar date and on none.
HeaderTexts ==
    {
    <<"2", "0", "1", "2", "-", "0", "1", "-", "0", "1", " ", "*", " ", "\"", "d", "\"",
      "\n">>,
    <<"2", "0", "1", "2", "-", "1", "3", "-", "0", "1", " ", "*", " ", "\"", "d", "\"",
      "\n">>}

\* What the lines after the header are: a posting of 0 GBP, one of 1 GBP,
\* a line with a comment only, a blank line.
BodyLines ==
    {
    <<" ", "A", "s", "s", "e", "t", "s", ":", "A", "b", " ", "0", " ", "G", "B", "P", "\n">>,
    <<" ", "A", "s", "s", "e", "t", "s", ":", "A", "b", " ", "1", " ", "G", "B", "P", "\n">>,
    <<" ", ";", "c", "\n">>,
    <<"\n">>}

\* The bodies of up to n lines.
RECURSIVE Bodies(_)
Bodies(n) ==
    IF n = 0 THEN {<<>>}
    ELSE {<<>>} \cup {l \o b : l \in BodyLines, b \in Bodies(n - 1)}

\* The files: the option line, the account opened or not, one header, a body.
Files(n) ==
    {OptionText \o o \o h \o b : o \in {<<>>, OpenText}, h \in HeaderTexts, b \in Bodies(n)}

\* The text YYYY-MM-DD as date.parse() reads it: year, month and day.
DateFields(text) ==
    <<NumberOf(SubSeq(text, 1, 4)), NumberOf(SubSeq(text, 6, 7)), NumberOf(SubSeq(text, 9, 10))>>

\* The item as parse holds it: the text of a Date token is what date.parse() reads.
Lexed(item) ==
    IF item # None /\ unwrap(item).is_ok /\ unwrap(item).v.kind = "Date"
    THEN Some(Ok([unwrap(item).v EXCEPT !.value = DateFields(@)]))
    ELSE item

\* The code of parse from one pull to the next, at the position of c.
parse_step(c, item) ==
    CASE c.parser.pc = "option_line" -> step_option_line(c, item)
      [] c.parser.pc = "tx_open_loop" -> step_tx_open_loop(c, item)
      [] c.parser.pc = "directive" -> step_directive(c, item)
      [] c.parser.pc = "open_account" -> step_open_account(c, item)
      [] c.parser.pc = "open_currency" -> step_open_currency(c, item)
      [] c.parser.pc = "open_end" -> step_open_end(c, item)
      [] c.parser.pc = "tx_description" -> step_tx_description(c, item)
      [] c.parser.pc = "tx_newline" -> step_tx_newline(c, item)
      [] c.parser.pc = "posts_loop" -> step_posts_loop(c, item)
      [] c.parser.pc = "post_amount" -> step_post_amount(c, item)
      [] c.parser.pc = "post_end" -> step_post_end(c, item)
      [] c.parser.pc = "conversion_amount" -> step_conversion_amount(c, item)
      [] c.parser.pc = "conversion_end" -> step_conversion_end(c, item)

InitFile ==
    /\ accounts = <<>>
    /\ transactions = <<>>
    /\ op = "new"
    /\ ret = "Ok"
    /\ iter = None
    /\ items = <<>>
    /\ ended = FALSE
    /\ pool = NoStream
    /\ parser = ParseStart
    /\ tokenizer \in {Fresh(b) : b \in Files(MaxPostings)}

\* One pull of parse: tokenizer.next(), then the code up to the next pull.
\* r is what next_token returns, item what next hands to parse, c parse
\* at its next pull.
ParsePull ==
    /\ parser.pc # "returned"
    /\ \E r \in {next_token(tokenizer)} :
          \E item \in {Lexed(Result_transpose(r.result))} :
              \E c \in {parse_step(Context, item)} :
                  /\ tokenizer' = [tokenizer EXCEPT !.cursor = r.cursor,
                                                    !.before = tokenizer.cursor,
                                                    !.at = r.at,
                                                    !.item = Result_transpose(r.result),
                                                    !.called = TRUE]
                  /\ parser' = [c.parser EXCEPT
                                   !.from = parser.pc, !.last = Delivered(item),
                                   !.head = IF Len(parser.head) < 2
                                            THEN Append(parser.head, Delivered(item))
                                            ELSE parser.head]
                  /\ accounts' = c.accounts
                  /\ transactions' = c.transactions
                  /\ op' = c.op
                  /\ ret' = c.ret
    /\ UNCHANGED <<iter, items, ended, pool>>

NextFile == ParsePull

SpecFile == InitFile /\ [][NextFile]_vars

\* ------------------------------------------------- vocabulary of the claims

IsAuto(p) == p.kind = "Auto"

AutoCount(ps) == Cardinality({k \in 1..Len(ps) : IsAuto(ps[k])})

\* The transaction-currency amount a non-auto posting states.
TxAmountOf(p) ==
    IF p.kind = "Regular" THEN p.amount ELSE DecMul(p.account_amount, p.rate)

TxCurrencyOf(p) == IF p.kind = "Regular" THEN p.currency ELSE p.tx_currency

AccountCurrencyOf(p) == IF p.kind = "Regular" THEN p.currency ELSE p.account_currency

\* Signed sum of the transaction-currency amounts of the non-auto postings.
RECURSIVE SignedSum(_)
SignedSum(ps) ==
    IF ps = <<>> THEN ZERO
    ELSE IF IsAuto(Head(ps)) THEN SignedSum(Tail(ps))
    ELSE DecAdd(TxAmountOf(Head(ps)), SignedSum(Tail(ps)))

Opened(id) == \E i \in 1..Len(accounts) : accounts[i].id = id

AccountOf(id) == accounts[CHOOSE i \in 1..Len(accounts) : accounts[i].id = id]

Names(id, ps) == \E k \in 1..Len(ps) : ps[k].account_id = id

\* The posting passes the checks made on it alone: account, date, currency.
PostingPasses(date, p) ==
    /\ Opened(p.account_id)
    /\ date >= AccountOf(p.account_id).opening_date
    /\ ~IsAuto(p) => AccountOf(p.account_id).currency = AccountCurrencyOf(p)

\* Posting k states another transaction currency than an earlier posting.
CurrencyClash(ps, k) ==
    /\ ~IsAuto(ps[k])
    /\ \E j \in 1..(k - 1) : ~IsAuto(ps[j]) /\ TxCurrencyOf(ps[j]) # TxCurrencyOf(ps[k])

\* Posting k is the second auto-posting of the list.
SecondAuto(ps, k) == IsAuto(ps[k]) /\ AutoCount(SubSeq(ps, 1, k - 1)) = 1

\* The pass over the list reaches posting k: no posting before it fails a check.
Reaches(date, ps, k) ==
    \A j \in 1..(k - 1) :
        PostingPasses(date, ps[j]) /\ ~CurrencyClash(ps, j) /\ ~SecondAuto(ps, j)

\* The value add_transaction returns in the current state.
Returned(date, ps) == add_transaction(accounts, transactions, date, "tx", ps)

\* The posting lists add_transaction can be called with in the current state:
\* none while a traversal of balances() borrows the document.
Submittable ==
    IF is_some(iter) THEN {} ELSE PostingListsOf(pool.postings, transactions)

LastTx == transactions[Len(transactions)]

BalanceNow(id) == balance(accounts, transactions, id)

\* ------------------------------------------------------------------ claims

\* C1: whenever add_transaction returns an error, the accounts and the
\* transactions are exactly what they were before the call, and every
\* balance query returns what it returned before.
C1_ErrorMutatesNothing ==
    [][(op' = "add_transaction" /\ ret' # "Ok") =>
          /\ accounts' = accounts
          /\ transactions' = transactions
          /\ \A id \in AccountIds :
                balance(accounts', transactions', id) = balance(accounts, transactions, id)]_vars

C1_Witness ==
    op = "add_transaction" /\ ret = "NotBalanced" /\ Len(transactions) = 1

\* C2: every stored transaction without an auto-posting has a signed sum of
\* absolute value at most 0.005; a list without auto-posting whose postings
\* all pass their own checks is accepted when the absolute value of its sum
\* is at most 0.005 (0.005 and -0.005 included) and gets NotBalanced otherwise.
C2_BalancedWithinTolerance ==
    /\ \A i \in 1..Len(transactions) :
          AutoCount(transactions[i].postings) = 0 =>
              ~DecGt(DecAbs(SignedSum(transactions[i].postings)), Dec(5, 3))
    /\ \A date \in pool.dates, ps \in Submittable :
          (AutoCount(ps) = 0 /\ Reaches(date, ps, Len(ps) + 1)) =>
              Returned(date, ps).ret =
                  IF DecGt(DecAbs(SignedSum(ps)), Dec(5, 3)) THEN "NotBalanced" ELSE "Ok"

C2_Witness ==
    /\ \E i \in 1..Len(transactions) : SignedSum(transactions[i].postings) = Dec(5, 3)
    /\ \E i \in 1..Len(transactions) : SignedSum(transactions[i].postings) = Dec(-5, 3)
    /\ AutoCount(transactions[1].postings) = 0
    /\ AutoCount(LastTx.postings) = 0

\* C3 as stated: after an accepted call whose postings hold an auto-posting
\* for X, balance(X) is the balance before minus the running total of the
\* non-auto postings, whatever the other postings are.
C3_AutoBalanceAsStated ==
    [][(op' = "add_transaction" /\ ret' = "Ok") =>
          \A id \in AccountIds :
              Names(id, SelectSeq(transactions'[Len(transactions')].postings, IsAuto)) =>
                  unwrap(balance(accounts', transactions', id)) =
                      DecAdd(unwrap(balance(accounts, transactions, id)),
                             DecNeg(SignedSum(transactions'[Len(transactions')].postings)))]_vars

\* C3 amended: the same, for a transaction none of whose non-auto postings
\* names X.
C3_AutoBalance ==
    [][(op' = "add_transaction" /\ ret' = "Ok") =>
          \A id \in AccountIds :
              ( /\ Names(id, SelectSeq(transactions'[Len(transactions')].postings, IsAuto))
                /\ ~Names(id, SelectSeq(transactions'[Len(transactions')].postings,
                                        LAMBDA p : ~IsAuto(p))) ) =>
                  unwrap(balance(accounts', transactions', id)) =
                      DecAdd(unwrap(balance(accounts, transactions, id)),
                             DecNeg(SignedSum(transactions'[Len(transactions')].postings)))]_vars

C3_Witness ==
    /\ op = "add_transaction" /\ ret = "Ok" /\ Len(transactions) = 2
    /\ \E id \in AccountIds :
          /\ Names(id, SelectSeq(LastTx.postings, IsAuto))
          /\ ~Names(id, SelectSeq(LastTx.postings, LAMBDA p : ~IsAuto(p)))
          /\ balance(accounts, <<transactions[1]>>, id) # Some(ZERO)
    /\ SignedSum(LastTx.postings) # ZERO

\* What C4 says an account's balance is made of: one term per posting to
\* the account, in every stored transaction.
Contribution(t, p) ==
    CASE p.kind = "Regular" -> p.amount
      [] p.kind = "Conversion" -> p.account_amount
      [] p.kind = "Auto" -> DecNeg(t.balance)

RECURSIVE SumOfPostings(_, _, _)
SumOfPostings(t, k, id) ==
    IF k = 0 THEN ZERO
    ELSE DecAdd(SumOfPostings(t, k - 1, id),
                IF t.postings[k].account_id = id THEN Contribution(t, t.postings[k]) ELSE ZERO)

RECURSIVE SumOfTransactions(_, _)
SumOfTransactions(n, id) ==
    IF n = 0 THEN ZERO
    ELSE DecAdd(SumOfTransactions(n - 1, id),
                SumOfPostings(transactions[n], Len(transactions[n].postings), id))

\* C4: for an opened account, balance(id) is the sum over every stored
\* transaction and every posting in it to that account of the amount
\* (Regular), the account_amount, not converted (Conversion), or the negated
\* resolved imbalance of the transaction (Auto); all postings are counted.
C4_BalanceIsSumOfPostings ==
    \A id \in AccountIds :
        Opened(id) => BalanceNow(id) = Some(SumOfTransactions(Len(transactions), id))

C4_Witness ==
    /\ Len(transactions) = 2
    /\ \E i \in 1..2 : \E k \in 1..Len(transactions[i].postings) :
          /\ transactions[i].postings[k].kind = "Conversion"
          /\ transactions[i].postings[k].rate # ONE
    /\ \E i \in 1..2 : \E j, k \in 1..Len(transactions[i].postings) :
          j # k /\ transactions[i].postings[j].account_id = transactions[i].postings[k].account_id
    /\ \E id \in AccountIds :
          /\ Names(id, transactions[1].postings) /\ Names(id, transactions[2].postings)
          /\ Names(id, SelectSeq(transactions[2].postings, IsAuto))

\* C5: balance(id) is None exactly when no account with that name and type
\* has been opened; for an opened account it is a value, 0 when no stored
\* transaction posts to the account.
C5_BalanceNoneIffNotOpened ==
    \A id \in AccountIds :
        /\ BalanceNow(id) = None <=> ~Opened(id)
        /\ (Opened(id) /\ \A i \in 1..Len(transactions) : ~Names(id, transactions[i].postings))
              => BalanceNow(id) = Some(ZERO)

C5_Witness ==
    /\ transactions # <<>>
    /\ \E id \in AccountIds :
          Opened(id) /\ BalanceNow(id) = Some(ZERO)
              /\ \A i \in 1..Len(transactions) : ~Names(id, transactions[i].postings)
    /\ \E id \in AccountIds : Opened(id) /\ BalanceNow(id) # Some(ZERO)
    /\ \E id, other \in AccountIds :
          Opened(id) /\ ~Opened(other) /\ other.type_ = id.type_ /\ BalanceNow(other) = None

\* What a complete traversal yields: one entry per account, in opening order.
ExpectedItems ==
    [i \in 1..Len(accounts) |->
        [id |-> accounts[i].id,
         amount |-> unwrap(BalanceNow(accounts[i].id)),
         currency |-> accounts[i].currency]]

\* C6: a traversal of balances() yields one entry per opened account, in
\* opening order, none left out or repeated, and then ends; each entry holds
\* balance(id) in the current state and the account's own currency.
C6_BalancesInOpeningOrder ==
    is_some(iter) =>
        /\ Len(items) <= Len(accounts)
        /\ \A i \in 1..Len(items) : items[i] = ExpectedItems[i]
        /\ \A i, j \in 1..Len(items) : i # j => items[i].id # items[j].id
        /\ ended <=> (op = "next" /\ ret = "None")
        /\ ended => Len(items) = Len(accounts)
        /\ (op = "next" /\ ret = "Some") => Len(items) >= 1

C6_Witness ==
    /\ is_some(iter) /\ ended
    /\ Len(items) = 2
    /\ items[1].amount # ZERO
    /\ items[1].currency # items[2].currency
    /\ Len(transactions) = 2

\* C7: open_an_account with an AccountId already present fails with
\* AccountAlreadyExists, whatever the new account's currency and opening
\* date, and leaves the accounts unchanged; with an AccountId not present it
\* succeeds and appends the account at the end.
C7_OpenRejectsPresentId ==
    \A account \in pool.accounts :
        IF Opened(account.id)
        THEN open_an_account(accounts, account) =
                 [ret |-> "AccountAlreadyExists", accounts |-> accounts]
        ELSE open_an_account(accounts, account) =
                 [ret |-> "Ok", accounts |-> accounts \o <<account>>]

C7_Witness ==
    /\ op = "open_an_account" /\ ret = "AccountAlreadyExists"
    /\ \E account \in pool.accounts :
          /\ Opened(account.id)
          /\ AccountOf(account.id).currency # account.currency
          /\ AccountOf(account.id).opening_date # account.opening_date
    /\ \E account \in pool.accounts : ~Opened(account.id)

\* C8: no two accounts of the document have the same AccountId (same name
\* and same type); accounts of the same name and different types coexist.
C8_AccountIdsUnique ==
    \A i, j \in 1..Len(accounts) : i # j => accounts[i].id # accounts[j].id

C8_Witness ==
    \E i, j \in 1..Len(accounts) :
        accounts[i].id.name = accounts[j].id.name /\ accounts[i].id.type_ # accounts[j].id.type_

\* C9: in every stored transaction the currency of every Regular posting and
\* the tx_currency of every Conversion posting are all equal; when the pass
\* reaches a non-auto posting that passes its own account checks and states
\* another transaction currency than the first non-auto posting,
\* add_transaction returns IncorrectTransactionCurrency, whatever follows.
C9_OneTransactionCurrency ==
    /\ \A i \in 1..Len(transactions) :
          \A j, k \in 1..Len(transactions[i].postings) :
              (~IsAuto(transactions[i].postings[j]) /\ ~IsAuto(transactions[i].postings[k]))
                  => TxCurrencyOf(transactions[i].postings[j])
                         = TxCurrencyOf(transactions[i].postings[k])
    /\ \A date \in pool.dates, ps \in Submittable :
          \A k \in 1..Len(ps) :
              (Reaches(date, ps, k) /\ PostingPasses(date, ps[k]) /\ CurrencyClash(ps, k))
                  => /\ Returned(date, ps).ret = "IncorrectTransactionCurrency"
                     /\ Returned(date, ps).transactions = transactions

C9_Witness ==
    /\ op = "add_transaction" /\ ret = "IncorrectTransactionCurrency"
    /\ transactions # <<>>
    /\ \E date \in pool.dates, ps \in Submittable :
          /\ Len(ps) = 3
          /\ Reaches(date, ps, 2) /\ PostingPasses(date, ps[2]) /\ CurrencyClash(ps, 2)
          /\ Returned(date, ps).ret = "IncorrectTransactionCurrency"

\* C10: every stored transaction holds at most one auto-posting; a list with
\* two or more auto-postings, to the same or to different accounts, is
\* rejected and nothing is stored, with MoreThanOneAutoPosting when the pass
\* reaches the second auto-posting and that posting passes its own account
\* checks, whatever follows it.
C10_AtMostOneAuto ==
    /\ \A i \in 1..Len(transactions) : AutoCount(transactions[i].postings) <= 1
    /\ \A date \in pool.dates, ps \in Submittable :
          AutoCount(ps) >= 2 =>
              /\ Returned(date, ps).ret # "Ok"
              /\ Returned(date, ps).transactions = transactions
              /\ \A k \in 1..Len(ps) :
                    (SecondAuto(ps, k) /\ Reaches(date, ps, k) /\ PostingPasses(date, ps[k]))
                        => Returned(date, ps).ret = "MoreThanOneAutoPosting"

C10_Witness ==
    /\ op = "add_transaction" /\ ret = "MoreThanOneAutoPosting"
    /\ \E i \in 1..Len(transactions) : AutoCount(transactions[i].postings) = 1
    /\ \E date \in pool.dates, ps \in Submittable :
          /\ Len(ps) = 3
          /\ SecondAuto(ps, 2) /\ ps[1] # ps[2]
          /\ Returned(date, ps).ret = "MoreThanOneAutoPosting"

\* C11: every posting of every stored transaction names an opened account;
\* add_transaction returns AccountNotFound, and stores nothing, exactly when
\* the pass reaches a posting whose AccountId (name and type) is not opened.
C11_PostingsNameOpenedAccounts ==
    /\ \A i \in 1..Len(transactions) :
          \A k \in 1..Len(transactions[i].postings) :
              Opened(transactions[i].postings[k].account_id)
    /\ \A date \in pool.dates, ps \in Submittable :
        LET r == Returned(date, ps) IN
          /\ r.ret = "AccountNotFound"
                <=> \E k \in 1..Len(ps) :
                        Reaches(date, ps, k) /\ ~Opened(ps[k].account_id)
          /\ r.ret = "AccountNotFound" => r.transactions = transactions

C11_Witness ==
    /\ op = "add_transaction" /\ ret = "AccountNotFound"
    /\ transactions # <<>>
    /\ \E date \in pool.dates, ps \in Submittable :
          /\ Len(ps) = 2 /\ PostingPasses(date, ps[1])
          /\ ~Opened(ps[2].account_id)
          /\ \E i \in 1..Len(accounts) :
                /\ accounts[i].id.name = ps[2].account_id.name
                /\ accounts[i].id.type_ # ps[2].account_id.type_
          /\ Returned(date, ps).ret = "AccountNotFound"

\* C12: every posting of every stored transaction is to an account opened on
\* or before the transaction's date; add_transaction returns AccountNotOpen
\* exactly when the pass reaches a posting (an auto-posting included) to an
\* opened account whose opening date is later than the transaction's date, so
\* a date equal to the opening date is not refused.
C12_OpenedOnOrBeforeDate ==
    /\ \A i \in 1..Len(transactions) :
          \A k \in 1..Len(transactions[i].postings) :
              AccountOf(transactions[i].postings[k].account_id).opening_date
                  <= transactions[i]._date
    /\ \A date \in pool.dates, ps \in Submittable :
          Returned(date, ps).ret = "AccountNotOpen"
              <=> \E k \in 1..Len(ps) :
                      /\ Reaches(date, ps, k)
                      /\ Opened(ps[k].account_id)
                      /\ date < AccountOf(ps[k].account_id).opening_date

C12_Witness ==
    /\ op = "add_transaction" /\ ret = "AccountNotOpen"
    /\ \E i \in 1..Len(transactions) :
          \E k \in 1..Len(transactions[i].postings) :
              /\ IsAuto(transactions[i].postings[k])
              /\ AccountOf(transactions[i].postings[k].account_id).opening_date
                     = transactions[i]._date
    /\ \E date \in pool.dates, ps \in Submittable :
          /\ Len(ps) = 2 /\ PostingPasses(date, ps[1]) /\ IsAuto(ps[2])
          /\ Returned(date, ps).ret = "AccountNotOpen"

\* C13: in every stored transaction a Regular posting's currency and a
\* Conversion posting's account_currency are the currency of the posted
\* account, while a Conversion posting's tx_currency may be another one;
\* add_transaction returns IncorrectAccountCurrency exactly when the pass
\* reaches a non-auto posting to an account open at the date whose currency
\* is not the one the posting states.  An accepted list with a single posting
\* to an account, a Conversion, moves that balance by the account_amount.
C13_AccountCurrency ==
    /\ \A i \in 1..Len(transactions) :
          \A k \in 1..Len(transactions[i].postings) :
              ~IsAuto(transactions[i].postings[k]) =>
                  AccountCurrencyOf(transactions[i].postings[k])
                      = AccountOf(transactions[i].postings[k].account_id).currency
    /\ \A date \in pool.dates, ps \in Submittable :
        LET r == Returned(date, ps) IN
          /\ r.ret = "IncorrectAccountCurrency"
                <=> \E k \in 1..Len(ps) :
                        /\ Reaches(date, ps, k)
                        /\ ~IsAuto(ps[k])
                        /\ Opened(ps[k].account_id)
                        /\ date >= AccountOf(ps[k].account_id).opening_date
                        /\ AccountCurrencyOf(ps[k]) # AccountOf(ps[k].account_id).currency
          /\ \A k \in 1..Len(ps) :
                ( /\ r.ret = "Ok"
                  /\ ps[k].kind = "Conversion"
                  /\ \A j \in 1..Len(ps) : j # k => ps[j].account_id # ps[k].account_id )
                => balance(accounts, r.transactions, ps[k].account_id)
                       = Some(DecAdd(unwrap(BalanceNow(ps[k].account_id)),
                                     ps[k].account_amount))

C13_Witness ==
    /\ op = "add_transaction" /\ ret = "IncorrectAccountCurrency"
    /\ \E i \in 1..Len(transactions) :
          \E k \in 1..Len(transactions[i].postings) :
              /\ transactions[i].postings[k].kind = "Conversion"
              /\ transactions[i].postings[k].tx_currency
                     # AccountOf(transactions[i].postings[k].account_id).currency
              /\ BalanceNow(transactions[i].postings[k].account_id)
                     = Some(transactions[i].postings[k].account_amount)
    /\ \E date \in pool.dates, ps \in Submittable :
          /\ Len(ps) = 2 /\ PostingPasses(date, ps[1])
          /\ Returned(date, ps).ret = "IncorrectAccountCurrency"

\* The account an auto-posting of the list posts to.
AutoAccountOf(ps) == AccountOf(ps[CHOOSE k \in 1..Len(ps) : IsAuto(ps[k])].account_id)

\* C14: in every stored transaction with an auto-posting and at least one
\* non-auto posting the auto-posting's account has the transaction currency,
\* wherever the auto-posting stands in the list; a list with one auto-posting
\* whose postings all pass their own checks gets IncorrectTransactionCurrency
\* when the auto account's currency is not the transaction currency, and a
\* list holding an auto-posting alone is accepted.
C14_AutoAccountCurrency ==
    /\ \A i \in 1..Len(transactions) :
          \A j, k \in 1..Len(transactions[i].postings) :
              (IsAuto(transactions[i].postings[j]) /\ ~IsAuto(transactions[i].postings[k]))
                  => AccountOf(transactions[i].postings[j].account_id).currency
                         = TxCurrencyOf(transactions[i].postings[k])
    /\ \A date \in pool.dates, ps \in Submittable :
          (AutoCount(ps) = 1 /\ Reaches(date, ps, Len(ps) + 1)) =>
              /\ (\E k \in 1..Len(ps) :
                     ~IsAuto(ps[k]) /\ TxCurrencyOf(ps[k]) # AutoAccountOf(ps).currency)
                    => /\ Returned(date, ps).ret = "IncorrectTransactionCurrency"
                       /\ Returned(date, ps).transactions = transactions
              /\ Len(ps) = 1 => Returned(date, ps).ret = "Ok"

C14_Witness ==
    /\ op = "add_transaction" /\ ret = "IncorrectTransactionCurrency"
    /\ \E i \in 1..Len(transactions) :
          Len(transactions[i].postings) = 1 /\ IsAuto(transactions[i].postings[1])
    /\ \E date \in pool.dates, ps, qs \in Submittable :
          /\ Len(ps) = 2 /\ IsAuto(ps[1]) /\ ~IsAuto(ps[2])
          /\ qs = <<ps[2], ps[1]>>
          /\ Reaches(date, ps, 3) /\ Reaches(date, qs, 3)
          /\ Returned(date, ps).ret = "IncorrectTransactionCurrency"
          /\ Returned(date, qs).ret = "IncorrectTransactionCurrency"

\* C15: a list with exactly one auto-posting whose postings pass the account,
\* date and currency checks is accepted whatever the running total of its
\* non-auto postings; the stored transaction is the list with that running
\* total as resolved imbalance, and the auto-posting's account moves by its
\* negation when no other posting of the list names it.
C15_AutoAbsorbsImbalance ==
    \A date \in pool.dates, ps \in Submittable :
        ( /\ AutoCount(ps) = 1
          /\ Reaches(date, ps, Len(ps) + 1)
          /\ \A k \in 1..Len(ps) :
                ~IsAuto(ps[k]) => TxCurrencyOf(ps[k]) = AutoAccountOf(ps).currency )
        => /\ Returned(date, ps).ret = "Ok"
           /\ Returned(date, ps).transactions
                  = Append(transactions, Transaction(date, "tx", SignedSum(ps), ps))
           /\ Cardinality({k \in 1..Len(ps) : ps[k].account_id = AutoAccountOf(ps).id}) = 1
                 => balance(accounts, Returned(date, ps).transactions, AutoAccountOf(ps).id)
                        = Some(DecAdd(unwrap(BalanceNow(AutoAccountOf(ps).id)),
                                      DecNeg(SignedSum(ps))))

C15_Witness ==
    /\ op = "add_transaction" /\ ret = "Ok"
    /\ transactions # <<>>
    /\ AutoCount(LastTx.postings) = 1
    /\ Len(LastTx.postings) >= 2
    /\ DecGt(DecAbs(LastTx.balance), Dec(5, 3))
    /\ LastTx.balance = SignedSum(LastTx.postings)

\* C16 as stated: a stored transaction without auto-posting sums to exactly
\* zero, and a stored balance field is non-zero only in a transaction that
\* holds an auto-posting.
C16_ExactlyBalanced ==
    \A i \in 1..Len(transactions) :
        AutoCount(transactions[i].postings) = 0 =>
            /\ SignedSum(transactions[i].postings) = ZERO
            /\ transactions[i].balance = ZERO

\* ------------------------------------------------- vocabulary of parse()

HasReturned == parser.pc = "returned"

ReturnedKind == unwrap(parser.result).kind

LedgerRejected == op \in {"open_an_account", "add_transaction"} /\ ret # "Ok"

\* The kinds of token the grammar allows at each point where parse pulls.
ExpectedAt(pc) ==
    CASE pc = "option_line" -> {"OptionLine"}
      [] pc = "tx_open_loop" -> {"Newline", "Date"}
      [] pc = "directive" -> {"DirectiveOpen", "DirectivePostTx"}
      [] pc = "open_account" -> {"Account"}
      [] pc = "open_currency" -> {"Currency"}
      [] pc = "open_end" -> {"Newline"}
      [] pc = "tx_description" -> {"TxDescription"}
      [] pc = "tx_newline" -> {"Newline"}
      [] pc = "posts_loop" -> {"Newline", "Account"}
      [] pc = "post_amount" -> {"Amount"}
      [] pc = "post_end" -> {"Newline", "At"}
      [] pc = "conversion_amount" -> {"Amount"}
      [] pc = "conversion_end" -> {"Newline"}
      [] OTHER -> {}

\* C17 as stated: when the ledger rejects a directive during parse, a
\* duplicate open or any add_transaction failure, parse returns a ParseError.
C17_LedgerRejectionIsParseError ==
    LedgerRejected => (HasReturned /\ ReturnedKind = "Err")

\* C18: a lexical error delivered by the stream ends parse with an Err of the
\* same message, line and column; a token of a kind the grammar does not
\* allow where it is pulled ends parse with an Err; once parse has returned
\* nothing more is pulled, and an Err carries no document, also after
\* directives had been applied.
C18_NoRecovery ==
    /\ parser.last = "error" =>
          \E e \in pool.errors :
              parser.result = Some(ReturnedErr(ParseError(e.msg, e.line, e.column)))
    /\ (parser.last \notin {"none", "end", "error"}
            /\ parser.last \notin ExpectedAt(parser.from))
          => (HasReturned /\ ReturnedKind = "Err")
    /\ parser.result # None <=> HasReturned
    /\ HasReturned => ~ENABLED NextParse
    /\ (HasReturned /\ ReturnedKind = "Err") => (accounts = <<>> /\ transactions = <<>>)

C18_Witness ==
    /\ HasReturned /\ ReturnedKind = "Err"
    /\ parser.last = "error" /\ parser.from = "post_amount"
    /\ unwrap(parser.result).error = Some(ParseError("decimal has too many digits", 2, 3))
    /\ op = "add_transaction" /\ ret = "Ok"

\* C19 as stated: parse returns a ParseError for every token stream that does
\* not begin with an OptionLine token immediately followed by a Newline token.
C19_OptionLineThenNewline ==
    (HasReturned /\ parser.head # <<"OptionLine", "Newline">>) => ReturnedKind = "Err"

\* Where C20 says the end of the stream is accepted: at top level, after a
\* complete open directive, after a complete posting.
EndAcceptedAsStated ==
    \/ parser.pc \in {"tx_open_loop", "open_end", "post_end", "conversion_end"}
    \/ parser.pc = "posts_loop" /\ parser.postings # <<>>

InvalidDateHeld ==
    is_some(parser.date) /\ ~is_some(date_parse(unwrap(parser.date)))

\* C21 as stated: a directive, open or transaction, whose Date token is no
\* calendar date makes parse return an error to its caller.
C21_InvalidDateIsError ==
    [][(InvalidDateHeld /\ parser'.pc = "returned")
          => unwrap(parser'.result).kind = "Err"]_vars

\* The item is a token of that kind.
IsToken(item, kind) ==
    item # None /\ unwrap(item).is_ok /\ unwrap(item).v.kind = kind

\* The context is that of a parse that returned a ParseError.
IsParseError(c) ==
    c.parser.result # None /\ unwrap(c.parser.result).kind = "Err"

\* The context is that of a parse that goes on, at the position pc.
GoesOnAt(c, pc) == c.parser.result = None /\ c.parser.pc = pc

\* C26 as stated: after a Date d and DirectiveOpen, parse requires an Account
\* token, then a Currency token, then calls open_an_account once with that
\* account id, that currency and d as opening date (the account is appended
\* behind those of the earlier directives, or the call is rejected), then
\* requires a Newline or the end of input; whatever else is delivered at
\* one of the three positions gives a ParseError.
C26_OpenDirective ==
    \A item \in StreamItems(pool) :
        /\ parser.pc = "open_account" =>
              LET c == step_open_account(Context, item)
              IN  IF IsToken(item, "Account")
                  THEN /\ GoesOnAt(c, "open_currency")
                       /\ c.parser.account = Some(unwrap(item).v.value)
                       /\ c.parser.date = parser.date
                       /\ c.accounts = accounts
                  ELSE IsParseError(c)
        /\ parser.pc = "open_currency" =>
              LET c == step_open_currency(Context, item)
                  d == date_parse(unwrap(parser.date))
              IN  IF IsToken(item, "Currency")
                  THEN /\ is_some(d)
                       /\ \/ /\ GoesOnAt(c, "open_end")
                             /\ c.accounts =
                                   Append(accounts, Account(unwrap(parser.account),
                                                            unwrap(item).v.value, unwrap(d)))
                          \/ /\ Opened(unwrap(parser.account))
                             /\ c.parser.result = Some(ReturnedErr(
                                    ParseError("account already exists", 0, 0)))
                  ELSE IsParseError(c)
        /\ parser.pc = "open_end" =>
              LET c == step_open_end(Context, item)
              IN  IF IsToken(item, "Newline")
                  THEN GoesOnAt(c, "tx_open_loop") /\ c.accounts = accounts
                  ELSE IF item = None
                  THEN c.parser.result = Some(ReturnedOk) /\ c.accounts = accounts
                  ELSE IsParseError(c)

\* The call add_transaction(d, _, ps) was made with the date of the block
\* being read: the ledger stored the list behind the earlier transactions,
\* or rejected it.
Submitted(c, ps) ==
    LET d == date_parse(unwrap(parser.date))
    IN  /\ is_some(d)
        /\ c.op = "add_transaction"
        /\ \/ c.ret # "Ok"
           \/ /\ c.ret = "Ok"
              /\ Len(c.transactions) = Len(transactions) + 1
              /\ SubSeq(c.transactions, 1, Len(transactions)) = transactions
              /\ c.transactions[Len(c.transactions)]._date = unwrap(d)
              /\ c.transactions[Len(c.transactions)].postings = ps

\* C27 as stated: for a posting line Account a, Amount (x, c), a Newline
\* records and the end of input submits Regular{a, x, c}; after At and
\* Amount (r, t), a Newline records and the end of input submits
\* Conversion{a, x, c, r, t}; any other token after the first Amount, and
\* anything but an Amount after Account or after At, gives a ParseError.
C27_PostingLine ==
    \A item \in StreamItems(pool) :
        /\ parser.pc = "post_amount" =>
              LET c == step_post_amount(Context, item)
              IN  IF IsToken(item, "Amount")
                  THEN /\ GoesOnAt(c, "post_end")
                       /\ c.parser.amount = Some(unwrap(item).v.value)
                       /\ c.parser.account = parser.account
                       /\ c.parser.postings = parser.postings
                  ELSE IsParseError(c)
        /\ parser.pc = "post_end" =>
              LET c == step_post_end(Context, item)
                  posting == Regular(unwrap(parser.account), unwrap(parser.amount).amount,
                                     unwrap(parser.amount).currency)
              IN  IF IsToken(item, "Newline")
                  THEN /\ GoesOnAt(c, "posts_loop")
                       /\ c.parser.postings = Append(parser.postings, posting)
                  ELSE IF item = None
                  THEN Submitted(c, Append(parser.postings, posting))
                  ELSE IF IsToken(item, "At")
                  THEN /\ GoesOnAt(c, "conversion_amount")
                       /\ c.parser.amount = parser.amount
                       /\ c.parser.account = parser.account
                       /\ c.parser.postings = parser.postings
                  ELSE IsParseError(c)
        /\ parser.pc = "conversion_amount" =>
              LET c == step_conversion_amount(Context, item)
              IN  IF IsToken(item, "Amount")
                  THEN /\ GoesOnAt(c, "conversion_end")
                       /\ c.parser.conversion = Some(unwrap(item).v.value)
                       /\ c.parser.amount = parser.amount
                       /\ c.parser.account = parser.account
                       /\ c.parser.postings = parser.postings
                  ELSE IsParseError(c)
        /\ parser.pc = "conversion_end" =>
              LET c == step_conversion_end(Context, item)
                  posting == Conversion(unwrap(parser.account),
                                        unwrap(parser.amount).amount,
                                        unwrap(parser.amount).currency,
                                        unwrap(parser.conversion).amount,
                                        unwrap(parser.conversion).currency)
              IN  IF IsToken(item, "Newline")
                  THEN /\ GoesOnAt(c, "posts_loop")
                       /\ c.parser.postings = Append(parser.postings, posting)
                  ELSE item = None => Submitted(c, Append(parser.postings, posting))

\* The step made no call of add_transaction: nothing was stored and nothing
\* was rejected.
NoCall(c) == c.ret = ret /\ Len(c.transactions) <= Len(transactions)

\* The step left the transaction block: parse is back at top level or over.
LeftBlock(c) == c.parser.pc \in {"tx_open_loop", "returned"}

\* The step left the list of the block as it was, if parse goes on.
SameList(c) == c.parser.result = None => c.parser.postings = parser.postings

\* C28 as stated: the list of a block starts empty after the header line and
\* grows by one posting per posting line, in input order; add_transaction is
\* called once per block, with the block's date and that list, when the
\* block ends: at a blank line, or at the end of input after a Regular or
\* after a Conversion posting; no other step inside a block calls it.
C28_OneSubmissionPerBlock ==
    \A item \in StreamItems(pool) :
        /\ parser.pc = "tx_description" =>
              NoCall(step_tx_description(Context, item))
        /\ parser.pc = "tx_newline" =>
              LET c == step_tx_newline(Context, item)
              IN  NoCall(c) /\ (c.parser.result = None => c.parser.postings = <<>>)
        /\ parser.pc = "posts_loop" =>
              LET c == step_posts_loop(Context, item)
              IN  IF IsToken(item, "Newline") \/ item = None
                  THEN Submitted(c, parser.postings) /\ LeftBlock(c)
                  ELSE NoCall(c) /\ SameList(c)
        /\ parser.pc = "post_amount" =>
              LET c == step_post_amount(Context, item)
              IN  NoCall(c) /\ SameList(c)
        /\ parser.pc = "post_end" =>
              LET c == step_post_end(Context, item)
                  posting == Regular(unwrap(parser.account), unwrap(parser.amount).amount,
                                     unwrap(parser.amount).currency)
              IN  IF item = None
                  THEN Submitted(c, Append(parser.postings, posting)) /\ LeftBlock(c)
                  ELSE /\ NoCall(c)
                       /\ IF IsToken(item, "Newline")
                          THEN c.parser.postings = Append(parser.postings, posting)
                          ELSE SameList(c)
        /\ parser.pc = "conversion_amount" =>
              LET c == step_conversion_amount(Context, item)
              IN  NoCall(c) /\ SameList(c)
        /\ parser.pc = "conversion_end" =>
              LET c == step_conversion_end(Context, item)
                  posting == Conversion(unwrap(parser.account),
                                        unwrap(parser.amount).amount,
                                        unwrap(parser.amount).currency,
                                        unwrap(parser.conversion).amount,
                                        unwrap(parser.conversion).currency)
              IN  IF item = None
                  THEN Submitted(c, Append(parser.postings, posting)) /\ LeftBlock(c)
                  ELSE /\ NoCall(c)
                       /\ IF IsToken(item, "Newline")
                          THEN c.parser.postings = Append(parser.postings, posting)
                          ELSE SameList(c)

\* C29 as stated: the quoted string of a transaction header becomes the
\* description of the transaction parse adds for the block, so that blocks
\* with different quoted strings are stored with different descriptions.
C29_DescriptionRetained ==
    [][Len(transactions') > Len(transactions)
          => transactions'[Len(transactions')]._description = unwrap(parser.text)]_vars

\* The positions of parse inside the posting lines of a transaction block.
InPostingLines == {"posts_loop", "post_amount", "post_end", "conversion_amount",
                   "conversion_end"}

\* The code parse runs after a pull at the position pc.
StepAt(pc, c, item) ==
    CASE pc = "posts_loop" -> step_posts_loop(c, item)
      [] pc = "post_amount" -> step_post_amount(c, item)
      [] pc = "post_end" -> step_post_end(c, item)
      [] pc = "conversion_amount" -> step_conversion_amount(c, item)
      [] pc = "conversion_end" -> step_conversion_end(c, item)

\* C30: where a posting line would start, an Account token starts one, a
\* Newline or the end of input ends the block without a ParseError, and every
\* other token gives the ParseError 'expected account' at that token, a Date
\* that would start the next directive included; within a posting line parse
\* stays in the block unless the input ends or a ParseError is returned.
C30_PostingLineStart ==
    \A item \in StreamItems(pool) :
        /\ parser.pc = "posts_loop" =>
              LET c == step_posts_loop(Context, item)
              IN  IF IsToken(item, "Account")
                  THEN /\ GoesOnAt(c, "post_amount")
                       /\ c.parser.account = Some(unwrap(item).v.value)
                       /\ c.parser.postings = parser.postings
                  ELSE IF IsToken(item, "Newline") \/ item = None
                  THEN LeftBlock(c) /\ ~IsParseError(c)
                  ELSE IF unwrap(item).is_ok
                  THEN c.parser.result = Some(ReturnedErr(
                          ParseError("expected account", unwrap(item).v.line,
                                     unwrap(item).v.column)))
                  ELSE c.parser.result = Some(ReturnedErr(From(unwrap(item).v)))
        /\ parser.pc \in InPostingLines \ {"posts_loop"} =>
              LET c == StepAt(parser.pc, Context, item)
              IN  \/ c.parser.result = None /\ c.parser.pc \in InPostingLines
                  \/ c.parser.result # None /\ item = None
                  \/ IsParseError(c)

C30_Witness ==
    /\ HasReturned
    /\ parser.from = "posts_loop" /\ parser.last = "Date"
    /\ parser.result = Some(ReturnedErr(ParseError("expected account", 2, 3)))
    /\ op = "add_transaction" /\ ret = "Ok"

\* ---------------------------------------------------- claims of the Tokenizer

\* The last call of next returned a token or a lexical error.
Produced == tokenizer.called /\ tokenizer.item # None

\* The token or the error the last call returned.
LastItem == unwrap(tokenizer.item).v

\* The number of characters that stand before position `at` on its line.
CharsBefore(buffer, at) ==
    IF \E p \in 1..at : buffer[p] = "\n"
    THEN at - (CHOOSE p \in 1..at : buffer[p] = "\n" /\ \A q \in (p + 1)..at : buffer[q] # "\n")
    ELSE at

\* C22 as stated: every token and every lexical error carries the column of
\* its first character, counted from 1 within its line: a character with k
\* characters before it on its line has column k + 1, on the first line as
\* on every later line.
C22_ColumnOfFirstCharacter ==
    Produced => LastItem.column = CharsBefore(tokenizer.buffer, tokenizer.at) + 1

\* The number of "\n" among the first c characters of the buffer.
NewlinesBefore(buffer, c) == Cardinality({p \in 1..c : buffer[p] = "\n"})

\* C23: at every cursor position of the buffer the line reported is 1 plus
\* the number of newline characters before the cursor, directly behind a
\* final newline and behind "\r\n" too; every token and every lexical
\* error carries that line for the position where it starts.
C23_LineOfCursor ==
    /\ \A c \in 0..Len(tokenizer.buffer) :
          current_line([tokenizer EXCEPT !.cursor = c])
              = 1 + NewlinesBefore(tokenizer.buffer, c)
    /\ Produced => LastItem.line = 1 + NewlinesBefore(tokenizer.buffer, tokenizer.at)

C23_Witness ==
    /\ Produced
    /\ Len(tokenizer.buffer) > 2
    /\ SubSeq(tokenizer.buffer, 1, 2) = <<"\r", "\n">>
    /\ tokenizer.at = 2
    /\ LastItem.line = 2
    /\ tokenizer.buffer[Len(tokenizer.buffer)] = "\n"
    /\ current_line([tokenizer EXCEPT !.cursor = Len(tokenizer.buffer)]) = 3

\* The last call of next returned a token.
ProducedToken == Produced /\ unwrap(tokenizer.item).is_ok

\* The last call of next returned the error 'unexpected character sequence'.
Unexpected ==
    Produced /\ ~unwrap(tokenizer.item).is_ok
        /\ LastItem.msg = "unexpected character sequence"

\* The texts the claim names, in the words of the model: a word that a
\* recognizer matches, directly followed by the start of another word.
Unfollowed ==
    {<<"o", "p", "e", "n", "X">>,
     <<"@", "X">>,
     <<"2", "0", "1", "2", "-", "0", "1", "-", "0", "1", "o", "p", "e", "n">>,
     <<"1", "2", "U", "S", "D", "o", "p", "e", "n">>}

\* The last call was the first, on a buffer that starts with one of these
\* texts, itself followed by white space or the end of the buffer.
ReadUnfollowed ==
    /\ tokenizer.called /\ tokenizer.before = 0
    /\ \E text \in Unfollowed :
          Literal(tokenizer.buffer, 0, text) /\ Followed(tokenizer.buffer, Len(text))

StatedType(label) ==
    CASE label = <<"A", "s", "s", "e", "t", "s">> -> "Asset"
      [] label = <<"L", "i", "a", "b", "i", "l", "i", "t", "i", "e", "s">> -> "Liability"
      [] label = <<"E", "q", "u", "i", "t", "y">> -> "Equity"
      [] label = <<"I", "n", "c", "o", "m", "e">> -> "Income"
      [] label = <<"E", "x", "p", "e", "n", "s", "e", "s">> -> "Expense"

\* The last call was the first, on the text label:name followed by the gap.
ReadAccount(label, name, gap) ==
    /\ tokenizer.called /\ tokenizer.before = 0
    /\ tokenizer.buffer = label \o <<":">> \o name \o gap

\* C25 as stated: label:name, followed by white space, a line end or the end
\* of the buffer, lexes to one Account token of that name and of the type
\* of the label when the label is one of the five and the name starts with
\* an uppercase letter; it is a lexical error when the name starts with a
\* lowercase letter or the label is none of the five.
C25_AccountToken ==
    \A label \in TypeLabels \cup OtherLabels, name \in AccountNames, gap \in Gaps :
        ReadAccount(label, name, gap) =>
            IF label \in TypeLabels /\ name[1] \in Upper
            THEN /\ tokenizer.item =
                       Some(Ok(Token("Account", AccountId(name, StatedType(label)), 1, 1)))
                 /\ tokenizer.cursor = Len(label) + 1 + Len(name)
            ELSE (name[1] \in Lower \/ label \notin TypeLabels)
                     => (Produced /\ ~unwrap(tokenizer.item).is_ok)

\* C31: at the head of the loop over the directives a Newline token is
\* skipped (parse stays there with nothing changed), a Date token starts a
\* directive, and every other token, an OptionLine among them, gives a
\* ParseError; after the Date a DirectiveOpen or DirectivePostTx token goes
\* on with that directive, and everything else, the end of input included,
\* gives a ParseError.
C31_TopLevel ==
    \A item \in StreamItems(pool) :
        /\ (parser.pc = "tx_open_loop" /\ item # None /\ unwrap(item).is_ok) =>
              LET c == step_tx_open_loop(Context, item)
              IN  IF IsToken(item, "Newline") THEN c = Context
                  ELSE IF IsToken(item, "Date")
                  THEN /\ GoesOnAt(c, "directive")
                       /\ c.parser.date = Some(unwrap(item).v.value)
                       /\ c.accounts = accounts /\ c.transactions = transactions
                  ELSE IsParseError(c)
        /\ parser.pc = "directive" =>
              LET c == step_directive(Context, item)
              IN  IF IsToken(item, "DirectiveOpen") THEN GoesOnAt(c, "open_account")
                  ELSE IF IsToken(item, "DirectivePostTx") THEN GoesOnAt(c, "tx_description")
                  ELSE IsParseError(c)

\* An OptionLine token behind a blank line at the head of the loop ended
\* parse with a ParseError.
C31_Witness ==
    /\ parser.pc = "returned" /\ IsParseError(Context)
    /\ parser.from = "tx_open_loop" /\ parser.last = "OptionLine"
    /\ parser.head = <<"OptionLine", "Newline">>

\* The last call of next skipped a comment before it made its result.
CommentSkipped ==
    /\ tokenizer.called
    /\ \E k \in (tokenizer.before + 1)..tokenizer.at : tokenizer.buffer[k] = ";"

\* The length of the line terminator that stands at the position: 0 for none.
LineEndAt(buffer, at) ==
    IF Literal(buffer, at, <<"\n">>) THEN 1
    ELSE IF Literal(buffer, at, <<"\r", "\n">>) THEN 2
    ELSE 0

\* C32 as stated: a comment is skipped up to the line terminator, which is
\* not part of it, and no token is made of it: the call that skips a comment
\* returns the Newline token of the terminator, at the line of the comment
\* and at the column behind the comment's last character (counted from 1),
\* and moves the cursor behind the terminator; it returns the end of input
\* when the comment ends the buffer.  So it is for a comment alone on its
\* line and for one behind tokens.
C32_CommentSkipped ==
    CommentSkipped =>
        /\ \A k \in (tokenizer.before + 1)..tokenizer.at :
              tokenizer.buffer[k] \notin {"\r", "\n"}
        /\ \/ tokenizer.at = Len(tokenizer.buffer)
           \/ tokenizer.buffer[tokenizer.at + 1] \in {"\r", "\n"}
        /\ tokenizer.at = Len(tokenizer.buffer) => tokenizer.item = None
        /\ LineEndAt(tokenizer.buffer, tokenizer.at) > 0 =>
              /\ tokenizer.item =
                    Some(Ok(Token("Newline", None,
                                  1 + NewlinesBefore(tokenizer.buffer, tokenizer.at),
                                  CharsBefore(tokenizer.buffer, tokenizer.at) + 1)))
              /\ tokenizer.cursor
                    = tokenizer.at + LineEndAt(tokenizer.buffer, tokenizer.at)

\* Posting k fails one of the checks made on a posting during the pass.
FailsAt(date, ps, k) ==
    ~PostingPasses(date, ps[k]) \/ CurrencyClash(ps, k) \/ SecondAuto(ps, k)

\* The error of a posting that fails, its checks taken in the stated order.
ErrorAt(date, ps, k) ==
    IF ~Opened(ps[k].account_id) THEN "AccountNotFound"
    ELSE IF date < AccountOf(ps[k].account_id).opening_date THEN "AccountNotOpen"
    ELSE IF ~IsAuto(ps[k]) /\ AccountOf(ps[k].account_id).currency # AccountCurrencyOf(ps[k])
    THEN "IncorrectAccountCurrency"
    ELSE IF IsAuto(ps[k]) THEN "MoreThanOneAutoPosting"
    ELSE "IncorrectTransactionCurrency"

\* The first posting of the list that fails.
FirstFailing(date, ps) ==
    CHOOSE k \in 1..Len(ps) :
        FailsAt(date, ps, k) /\ \A j \in 1..(k - 1) : ~FailsAt(date, ps, j)

\* C33: add_transaction returns the error of the first posting in list order
\* that fails a check, the checks of one posting taken in the order account
\* not found, account not open, incorrect account currency, incorrect
\* transaction currency or, for an auto-posting, more than one auto-posting;
\* NotBalanced and the currency mismatch of the auto-posting's account are
\* returned only for a list of which every posting passes.
C33_FirstFailingPosting ==
    \A date \in pool.dates, ps \in Submittable :
        LET r == Returned(date, ps)
        IN  IF \E k \in 1..Len(ps) : FailsAt(date, ps, k)
            THEN r.ret = ErrorAt(date, ps, FirstFailing(date, ps))
            ELSE /\ r.ret \in {"Ok", "NotBalanced", "IncorrectTransactionCurrency"}
                 /\ r.ret = "NotBalanced" => AutoCount(ps) = 0
                 /\ r.ret = "IncorrectTransactionCurrency" =>
                       /\ AutoCount(ps) = 1
                       /\ \E k \in 1..Len(ps) :
                             ~IsAuto(ps[k]) /\ TxCurrencyOf(ps[k]) # AutoAccountOf(ps).currency

\* A call was refused with AccountNotOpen although a list can be submitted
\* whose first posting is to an account that is not open yet and has another
\* currency, and whose second posting fails with another error again.
C33_Witness ==
    /\ op = "add_transaction" /\ ret = "AccountNotOpen"
    /\ \E date \in pool.dates, ps \in Submittable :
          /\ Len(ps) = 2 /\ FailsAt(date, ps, 1) /\ FailsAt(date, ps, 2)
          /\ ErrorAt(date, ps, 1) # ErrorAt(date, ps, 2)
          /\ Opened(ps[1].account_id) /\ ~IsAuto(ps[1])
          /\ date < AccountOf(ps[1].account_id).opening_date
          /\ AccountOf(ps[1].account_id).currency # AccountCurrencyOf(ps[1])
          /\ Returned(date, ps).ret = "AccountNotOpen"

\* The list `after` is the list `before` with one element appended.
OneAppended(before, after) ==
    Len(after) = Len(before) + 1 /\ SubSeq(after, 1, Len(before)) = before

\* C34: a successful open_an_account appends one account and leaves the
\* transactions alone, a successful add_transaction appends one transaction
\* and leaves the accounts alone, and no other step changes either list: what
\* is stored keeps its place and its content, so that every posting of a
\* stored transaction still names an account opened on or before its date.
C34_StoredIsNeverChanged ==
    [][/\ IF op' = "open_an_account" /\ ret' = "Ok"
          THEN OneAppended(accounts, accounts') /\ transactions' = transactions
          ELSE IF op' = "add_transaction" /\ ret' = "Ok"
          THEN OneAppended(transactions, transactions') /\ accounts' = accounts
          ELSE accounts' = accounts /\ transactions' = transactions
       /\ \A i \in 1..Len(transactions') :
             \A k \in 1..Len(transactions'[i].postings) :
                 \E j \in 1..Len(accounts') :
                     /\ accounts'[j].id = transactions'[i].postings[k].account_id
                     /\ accounts'[j].opening_date <= transactions'[i]._date]_vars

\* A second transaction was stored behind the first, in a ledger of two accounts.
C34_Witness ==
    /\ op = "add_transaction" /\ ret = "Ok"
    /\ Len(transactions) = 2 /\ Len(accounts) = 2
    /\ transactions[1] # transactions[2]

\* The stored transactions hold Regular and Auto postings only.
OnlyRegularAndAuto ==
    \A i \in 1..Len(transactions) :
        \A k \in 1..Len(transactions[i].postings) :
            transactions[i].postings[k].kind \in {"Regular", "Auto"}

\* The sum of balance(id) over the first n opened accounts.
RECURSIVE SumOfBalances(_)
SumOfBalances(n) ==
    IF n = 0 THEN ZERO
    ELSE DecAdd(SumOfBalances(n - 1), unwrap(BalanceNow(accounts[n].id)))

\* The stored transactions without an Auto posting.
WithoutAuto == {i \in 1..Len(transactions) : AutoCount(transactions[i].postings) = 0}

\* The sum of the resolved imbalances of those among the first n.
RECURSIVE SumOfImbalances(_)
SumOfImbalances(n) ==
    IF n = 0 THEN ZERO
    ELSE DecAdd(SumOfImbalances(n - 1),
                IF n \in WithoutAuto THEN transactions[n].balance ELSE ZERO)

\* C35: in a document whose stored transactions hold only Regular and Auto
\* postings, the balances of all opened accounts add up to the resolved
\* imbalances of the stored transactions without an Auto posting: to 0 when
\* each of those sums to exactly zero, and never to more, in absolute value,
\* than 0.005 times their number.
C35_BalancesSumToImbalances ==
    OnlyRegularAndAuto =>
        LET total == SumOfBalances(Len(accounts))
        IN  /\ total = SumOfImbalances(Len(transactions))
            /\ (\A i \in WithoutAuto : SignedSum(transactions[i].postings) = ZERO) => total = ZERO
            /\ ~DecGt(DecAbs(total), Dec(5 * Cardinality(WithoutAuto), 3))

\* Two stored transactions without an Auto posting, each 0.005 out of
\* balance, and one account's balance is the whole 0.01.
C35_Witness ==
    /\ OnlyRegularAndAuto /\ Len(transactions) = 2 /\ WithoutAuto = {1, 2}
    /\ Len(accounts) = 2
    /\ SumOfBalances(Len(accounts)) = Dec(10, 3)

\* C36: a successful add_transaction leaves the balance of every opened
\* account that none of its postings names as it was; a successful
\* open_an_account leaves the balance of every account opened before as it
\* was, and the balance of the account it opens is 0 straight afterwards.
C36_BalanceFrame ==
    [][/\ (op' = "add_transaction" /\ ret' = "Ok") =>
             \A id \in AccountIds :
                 (Opened(id) /\ ~Names(id, transactions'[Len(transactions')].postings)) =>
                     balance(accounts', transactions', id) = BalanceNow(id)
       /\ (op' = "open_an_account" /\ ret' = "Ok") =>
             /\ \A id \in AccountIds :
                    Opened(id) => balance(accounts', transactions', id) = BalanceNow(id)
             /\ balance(accounts', transactions', accounts'[Len(accounts')].id) = Some(ZERO)
             /\ ~Opened(accounts'[Len(accounts')].id)]_vars

\* With two accounts opened, a second transaction was stored that names the
\* first account and not the second, whose balance the first transaction
\* had moved away from 0.
C36_Witness ==
    /\ Len(accounts) = 2 /\ Len(transactions) = 2
    /\ op = "add_transaction" /\ ret = "Ok"
    /\ Names(accounts[1].id, LastTx.postings)
    /\ ~Names(accounts[2].id, LastTx.postings)
    /\ BalanceNow(accounts[1].id) # balance(accounts, <<transactions[1]>>, accounts[1].id)
    /\ BalanceNow(accounts[2].id) \notin {None, Some(ZERO)}

\* parse is reading the posting lines of a transaction block.
InBlock ==
    parser.pc \in {"posts_loop", "post_amount", "post_end", "conversion_amount",
                   "conversion_end"}

\* The accounts the block names so far, in the order of its posting lines:
\* those of the postings recorded and that of the line being read.
BlockAccounts ==
    [k \in 1..Len(parser.postings) |-> parser.postings[k].account_id]
        \o (IF parser.pc = "posts_loop" THEN <<>> ELSE <<unwrap(parser.account)>>)

\* The block names an account that no directive read so far has opened.
PostsToUnopened ==
    InBlock /\ \E k \in 1..Len(BlockAccounts) : ~Opened(BlockAccounts[k])

\* C37: the ledger holds what the directives read so far put there, so a
\* block that names an account not opened by an earlier directive is never
\* accepted, whatever open directive the rest of the input holds: each step
\* either reads on in the block, with the ledger as it was, or ends parse
\* without a document; when add_transaction is reached it rejects the block,
\* with AccountNotFound if the first posting names such an account.
C37_InputOrder ==
    [][PostsToUnopened =>
          \/ PostsToUnopened' /\ accounts' = accounts /\ transactions' = transactions
          \/ /\ parser'.pc = "returned"
             /\ parser'.result # Some(ReturnedOk)
             /\ accounts' = <<>> /\ transactions' = <<>>
             /\ (parser'.result = Some(Panicked) /\ is_some(date_parse(unwrap(parser.date)))) =>
                    /\ op' = "add_transaction"
                    /\ ret' # "Ok"
                    /\ ~Opened(BlockAccounts[1]) => ret' = "AccountNotFound"]_vars

\* The block was submitted and rejected for its account, which no directive
\* had opened, though the input can open it on the block's date.
C37_Witness ==
    /\ parser.pc = "returned" /\ parser.result = Some(Panicked)
    /\ op = "add_transaction" /\ ret = "AccountNotFound"
    /\ parser.from = "posts_loop" /\ parser.last = "Newline"
    /\ \E t \in pool.tokens : t.kind = "DirectiveOpen"
    /\ \E t \in pool.tokens : t.kind = "Account" /\ t.value = a1

\* add_transaction(d, _, <<>>) on the document of the current state: the call
\* succeeds and stores, behind the earlier transactions, one with no
\* postings and imbalance 0, and every balance is what it was.
EmptyAccepted(d) ==
    LET r == add_transaction(accounts, transactions, d, "todo", <<>>)
    IN  /\ r.ret = "Ok"
        /\ r.transactions = Append(transactions, Transaction(d, "todo", ZERO, <<>>))
        /\ \A id \in AccountIds : balance(accounts, r.transactions, id) = BalanceNow(id)

\* C38 as stated: add_transaction with an empty list of postings succeeds
\* on any document, storing a transaction with no postings and imbalance 0
\* that changes no balance; and parse accepts a transaction header followed
\* by a blank line: the empty block is stored and parse goes on at top level.
C38_EmptyBlock ==
    /\ \A t \in pool.tokens :
           (t.kind = "Date" /\ is_some(date_parse(t.value))) =>
               EmptyAccepted(unwrap(date_parse(t.value)))
    /\ \A item \in StreamItems(pool) :
           (parser.pc = "posts_loop" /\ parser.postings = <<>> /\ IsToken(item, "Newline")) =>
               LET c == step_posts_loop(Context, item)
                   d == date_parse(unwrap(parser.date))
               IN  /\ GoesOnAt(c, "tx_open_loop")
                   /\ is_some(d)
                   /\ c.accounts = accounts
                   /\ c.transactions =
                         Append(transactions, Transaction(unwrap(d), "todo", ZERO, <<>>))

\* The position behind the characters of the line that starts at i.
LineBodyEnd(buffer, i) == Run(buffer, i, Char \ {"\r", "\n"})

\* A line of the buffer that holds a comment only starts at the position:
\* blanks, then `;` and whatever stands before the line terminator.
CommentLineAt(buffer, i) ==
    /\ Run(buffer, i, Blank) < Len(buffer)
    /\ buffer[Run(buffer, i, Blank) + 1] = ";"
    /\ LineEndAt(buffer, LineBodyEnd(buffer, i)) > 0

\* The position behind that line.
BehindCommentLine(buffer, i) ==
    LineBodyEnd(buffer, i) + LineEndAt(buffer, LineBodyEnd(buffer, i))

\* A posting line starts at the position.
PostingLineAt(buffer, i) == is_some(ACCOUNT_REGEX(buffer, Run(buffer, i, Blank)))

\* parse has read a posting line of a block, and the Tokenizer stands before
\* a line with a comment only that a posting line follows.
CommentBetweenPostings ==
    /\ parser.pc = "posts_loop" /\ parser.from \in {"post_end", "conversion_end"}
    /\ parser.postings # <<>>
    /\ CommentLineAt(tokenizer.buffer, tokenizer.cursor)
    /\ PostingLineAt(tokenizer.buffer, BehindCommentLine(tokenizer.buffer, tokenizer.cursor))

\* The next two pulls of parse from the Tokenizer, and parse after each.
Pull1 == next_token(tokenizer)

After1 == parse_step(Context, Lexed(Result_transpose(Pull1.result)))

Pull2 == next_token([tokenizer EXCEPT !.cursor = Pull1.cursor])

After2 == parse_step(After1, Lexed(Result_transpose(Pull2.result)))

CursorInBuffer == tokenizer.cursor \in 0..Len(tokenizer.buffer)

\* A skip of white space or of a comment, wherever in the buffer it starts,
\* ends at least one character further and inside the buffer.
SkipsAdvance ==
    \A i \in 0..Len(tokenizer.buffer) :
        /\ is_some(WHITESPACE_REGEX(tokenizer.buffer, i)) =>
              unwrap(WHITESPACE_REGEX(tokenizer.buffer, i)) \in (i + 1)..Len(tokenizer.buffer)
        /\ is_some(COMMENT_REGEX(tokenizer.buffer, i)) =>
              unwrap(COMMENT_REGEX(tokenizer.buffer, i)) \in (i + 1)..Len(tokenizer.buffer)

\* A call of next: one that returns a token leaves the cursor at least one
\* character behind where the token starts, which is where the call started
\* or behind what it skipped; a call at the end of the buffer returns None
\* and leaves the cursor there.
CallAdvances ==
    /\ tokenizer'.at >= tokenizer.cursor
    /\ tokenizer'.cursor >= tokenizer'.at
    /\ (tokenizer'.item # None /\ unwrap(tokenizer'.item).is_ok) =>
          tokenizer'.cursor >= tokenizer'.at + 1
    /\ tokenizer.cursor = Len(tokenizer.buffer) =>
          tokenizer'.item = None /\ tokenizer'.cursor = tokenizer.cursor

\* A call of next returns the end of the input or a lexical error, or it
\* leaves the cursor further on than it found it: the cursor never passes
\* the end of the buffer, so of Len(buffer) + 1 calls in a row one returns
\* the end of the input or an error.
EndsOrAdvances ==
    \/ tokenizer'.item = None
    \/ ~unwrap(tokenizer'.item).is_ok
    \/ tokenizer'.cursor \in (tokenizer.cursor + 1)..Len(tokenizer.buffer)

\* C40: the cursor is always a position of the buffer; every call of next
\* that returns a token has moved it on by at least one character, and so
\* does every skip of white space or of a comment; so a caller that goes on
\* pulling gets the end of the input or a lexical error after at most
\* Len(buffer) tokens, and at the end of the buffer every call returns None.
C40_CursorAdvances ==
    /\ [](CursorInBuffer /\ SkipsAdvance)
    /\ [][CallAdvances /\ EndsOrAdvances]_vars

\* A call at the end of a buffer that holds a comment and a token returned
\* None, as the call before it had.
C40_Witness ==
    /\ tokenizer.called /\ tokenizer.item = None
    /\ tokenizer.before = Len(tokenizer.buffer) /\ tokenizer.cursor = Len(tokenizer.buffer)
    /\ \E k \in 1..Len(tokenizer.buffer) : tokenizer.buffer[k] = ";"
    /\ \E k \in 1..Len(tokenizer.buffer) : tokenizer.buffer[k] = "*"

====
